---- MODULE Spec2Model ----
(***************************************************************************)
(* A model of app.py, the transcription-study script: the stratified block *)
(* assignment (build_main_items_for_participant) and the page flow with    *)
(* its resume logic (render_login and the page handlers) over the survey   *)
(* and transcript sheets.                                                  *)
(***************************************************************************)
EXTENDS Integers, Sequences, FiniteSets, TLC

(***************************************************************************)
(* Bounds of the model.                                                    *)
(***************************************************************************)
\* how many items a group of a drawn pool may hold beyond its required count
MaxExtra == 1
\* how many items a group of a drawn pool may lack of its required count
MaxShort == 1
\* the clock may be read MaxTime times
MaxTime == 3
\* rows are appended to the survey sheet while it has fewer than MaxSurveyRows
MaxSurveyRows == 3
\* how many clock reads of a run to the end may be followed by a failing save
MaxFailedSaves == 1

(***************************************************************************)
(* Program constants.                                                      *)
(***************************************************************************)
\* for block_idx in range(10)
NumBlocks == 10

\* participant ids of the model (opaque strings)
Pids == {"p1", "p2"}

\* the two build_main_items_for_participant calls the builder model follows
Calls == {1, 2}

SentGroupNames == <<"G0", "G1", "G2", "G3">>
WordGroupNames == <<"WER0", "WER>0">>

\* required_sent = {"G0": 15, "G1": 10, "G2": 10, "G3": 15}
required_sent_keys == <<"G0", "G1", "G2", "G3">>
required_sent_flipped == [G0 |-> 15, G1 |-> 10, G2 |-> 10, G3 |-> 10]
required_sent == [G0 |-> 15, G1 |-> 10, G2 |-> 10, G3 |-> 15]

\* required_word = {"WER0": 30, "WER>0": 20}
required_word_keys == <<"WER0", "WER>0">>
required_word == ("WER0" :> 30) @@ ("WER>0" :> 20)

(***************************************************************************)
(* random.Random: a deterministic stream whose state is an integer.  The   *)
(* stream stands for the Mersenne Twister of the library: its values are   *)
(* a function of the seed alone.                                           *)
(***************************************************************************)
RngModulus == 65537

\* the seed hashed from the participant id string
Seed(pid) == CASE pid = "p1" -> 101
               [] pid = "p2" -> 2027
               [] OTHER -> 7

\* a generator whose first state also depends on which call creates it
NewRandomPerCall(pid, call) == Seed(pid) + call
\* rng = random.Random(participant_id)
NewRandom(pid, call) == Seed(pid)

NextRandom(r) == (r * 75 + 74) % RngModulus

\* _randbelow(n): a value in 0..n-1 from the state r
RandBelow(r, n) == (r \div 7) % n

\* random.shuffle(x): for i in reversed(range(1, len(x))): j = randbelow(i+1);
\* x[i], x[j] = x[j], x[i]      (positions here are 1-based)
RECURSIVE ShuffleFrom(_, _, _)
ShuffleFrom(x, i, r) ==
    IF i < 2 THEN [list |-> x, rng |-> r]
    ELSE LET r2 == NextRandom(r)
             j == RandBelow(r2, i) + 1
             y == [x EXCEPT ![i] = x[j], ![j] = x[i]]
         IN ShuffleFrom(y, i - 1, r2)

Shuffle(x, r) == ShuffleFrom(x, Len(x), r)

(***************************************************************************)
(* Dictionaries keep insertion order: keys is the order, lists the values. *)
(***************************************************************************)
EmptyDict == [keys |-> <<>>, lists |-> <<>>]

DictGet(d, g) == IF g \in DOMAIN d.lists THEN d.lists[g] ELSE <<>>

\* for it in items: groups.setdefault(it["group"], []).append(it)
\* a key enters the dict when the first item of its group is met; the list of
\* a key holds the items of its group in pool order
FirstIndex(items, g) ==
    CHOOSE k \in 1..Len(items) :
        /\ items[k].group = g
        /\ \A j \in 1..(k - 1) : items[j].group # g

RECURSIVE KeysInOrder(_, _)
KeysInOrder(items, groups) ==
    IF groups = {} THEN <<>>
    ELSE LET g == CHOOSE h \in groups :
                    \A o \in groups : FirstIndex(items, h) <= FirstIndex(items, o)
         IN <<g>> \o KeysInOrder(items, groups \ {g})

ItemsOfGroup(items, g) ==
    LET InGroup(it) == it.group = g IN SelectSeq(items, InGroup)

GroupItems(items) ==
    LET groups == {items[k].group : k \in 1..Len(items)}
    IN [keys |-> KeysInOrder(items, groups),
        lists |-> [g \in groups |-> ItemsOfGroup(items, g)]]

\* for g, need in required.items(): if len(groups.get(g, [])) < need: raise
RECURSIVE FirstShort(_, _, _, _)
FirstShort(d, keys, required, k) ==
    IF k > Len(keys) THEN "none"
    ELSE IF Len(DictGet(d, keys[k])) < required[keys[k]] THEN keys[k]
    ELSE FirstShort(d, keys, required, k + 1)

\* the sentence check against a table whose G3 entry is too small
ShortSentGroupFlipped(d) == FirstShort(d, required_sent_keys, required_sent_flipped, 1)
ShortSentGroup(d) == FirstShort(d, required_sent_keys, required_sent, 1)
ShortWordGroup(d) == FirstShort(d, required_word_keys, required_word, 1)

\* for g_list in groups.values(): rng.shuffle(g_list)
RECURSIVE ShuffleGroupsFrom(_, _, _)
ShuffleGroupsFrom(d, k, r) ==
    IF k > Len(d.keys) THEN [dict |-> d, rng |-> r]
    ELSE LET g == d.keys[k]
             s == Shuffle(d.lists[g], r)
         IN ShuffleGroupsFrom([d EXCEPT !.lists[g] = s.list], k + 1, s.rng)

ShuffleGroups(d, r) == ShuffleGroupsFrom(d, 1, r)

(***************************************************************************)
(* One block: 5 sentences and 5 words drawn by popping the group lists.    *)
(***************************************************************************)
\* a pattern table whose odd blocks repeat G0 instead of G3
SentPatternSame(block_idx) == <<"G0", "G0", "G1", "G2", "G3">>
\* Type A on even block_idx, Type B on odd block_idx
SentPattern(block_idx) ==
    IF block_idx % 2 = 0 THEN <<"G0", "G0", "G1", "G2", "G3">>
    ELSE <<"G0", "G1", "G2", "G3", "G3">>

\* a word pattern one WER0 short
WordPatternFour == <<"WER0", "WER0", "WER>0", "WER>0">>
\* word_pattern = ["WER0", "WER0", "WER0", "WER>0", "WER>0"]
WordPattern == <<"WER0", "WER0", "WER0", "WER>0", "WER>0">>

\* a draw that reads the last item and leaves it in the list
PeekLast(list) == [item |-> list[Len(list)], rest |-> list]
\* list.pop(): the last item, removed
PopLast(list) == [item |-> list[Len(list)], rest |-> SubSeq(list, 1, Len(list) - 1)]

\* for g in pattern: item = groups[g].pop(); block_items.append({...})
\* err is "IndexError" when a pop meets an empty list, "KeyError" when the
\* group has no list at all
RECURSIVE DrawFrom(_, _, _, _, _)
DrawFrom(d, pattern, kind, k, acc) ==
    IF k > Len(pattern) THEN [dict |-> d, items |-> acc, err |-> "none"]
    ELSE LET g == pattern[k]
         IN IF g \notin DOMAIN d.lists
            THEN [dict |-> d, items |-> acc, err |-> "KeyError"]
            ELSE IF Len(d.lists[g]) = 0
            THEN [dict |-> d, items |-> acc, err |-> "IndexError"]
            ELSE LET p == PopLast(d.lists[g])
                     bi == [kind |-> kind, group |-> g,
                            audio_id |-> p.item.audio_id,
                            drive_file_id |-> p.item.drive_file_id]
                 IN DrawFrom([d EXCEPT !.lists[g] = p.rest], pattern, kind,
                             k + 1, Append(acc, bi))

\* the body of "for block_idx in range(10)"
BuildBlock(block_idx, sg, wg, r) ==
    LET sp == Shuffle(SentPattern(block_idx), r)
        wp == Shuffle(WordPattern, sp.rng)
        ds == DrawFrom(sg, sp.list, "sentence", 1, <<>>)
        dw == DrawFrom(wg, wp.list, "word", 1, ds.items)
        sh == Shuffle(dw.items, wp.rng)
    IN IF ds.err # "none"
       THEN [err |-> ds.err, sent_groups |-> ds.dict, word_groups |-> wg,
             block |-> ds.items, rng |-> wp.rng]
       ELSE IF dw.err # "none"
       THEN [err |-> dw.err, sent_groups |-> ds.dict, word_groups |-> dw.dict,
             block |-> dw.items, rng |-> wp.rng]
       ELSE [err |-> "none", sent_groups |-> ds.dict, word_groups |-> dw.dict,
             block |-> sh.list, rng |-> sh.rng]

ItemPage(counter) == "item_" \o ToString(counter)

\* main_items: the ordered dict page_name -> config, as the sequence of its
\* entries in insertion order
RECURSIVE Concat(_, _)
Concat(blocks, b) ==
    IF b > Len(blocks) THEN <<>> ELSE blocks[b] \o Concat(blocks, b + 1)

\* for block in blocks: for item in block: main_items[f"item_{counter}"] = {...}
Flatten(blocks) ==
    LET flat == Concat(blocks, 1)
    IN [counter \in 1..Len(flat) |->
           [page_name |-> ItemPage(counter),
            audio_id |-> flat[counter].audio_id,
            drive_file_id |-> flat[counter].drive_file_id,
            kind |-> flat[counter].kind,
            group |-> flat[counter].group]]

(***************************************************************************)
(* The item pools get_sentence_items() and get_word_items() return: lists  *)
(* of items {audio_id, group, drive_file_id} in the order of the metadata  *)
(* rows.  Audio ids are the items' identifiers: distinct within and across *)
(* the two pools.                                                          *)
(***************************************************************************)
Layouts == {"forward", "reverse"}
Deviations == {"all", "other", "G0", "G1", "G2", "G3", "WER0", "WER>0"}

Reverse(s) == [k \in 1..Len(s) |-> s[Len(s) + 1 - k]]

\* the number of items of group g in the pool drawn for (dev, delta)
GroupCount(g, need, dev, delta) ==
    IF dev = "all" \/ dev = g THEN need + delta ELSE need

\* n items of group g with audio ids base+1 .. base+n
Run(g, n, base) ==
    [k \in 1..n |-> [audio_id |-> base + k, group |-> g,
                     drive_file_id |-> 5000 + base + k]]

RECURSIVE Runs(_, _, _, _, _, _)
Runs(names, required, dev, delta, k, acc) ==
    IF k > Len(names) THEN acc
    ELSE LET g == names[k]
             n == GroupCount(g, required[g], dev, delta)
             base == IF Len(acc) = 0 THEN 0 ELSE acc[Len(acc)].audio_id
         IN Runs(names, required, dev, delta, k + 1, acc \o Run(g, n, base))

\* items of a group no quota names
OtherRun(dev, delta, base) ==
    IF dev = "other" /\ delta > 0 THEN Run("GX", delta + 1, base) ELSE <<>>

SentencePool(layout, dev, delta) ==
    LET names == IF layout = "forward" THEN SentGroupNames ELSE Reverse(SentGroupNames)
        main == Runs(names, required_sent, dev, delta, 1, <<>>)
        other == OtherRun(dev, delta, 900)
    IN IF layout = "forward" THEN other \o main ELSE main \o other

WordPool(layout, dev, delta) ==
    LET names == IF layout = "forward" THEN WordGroupNames ELSE Reverse(WordGroupNames)
        main == Runs(names, required_word, dev, delta, 1, <<>>)
    IN [k \in 1..Len(main) |-> [main[k] EXCEPT !.audio_id = @ + 1000,
                                               !.drive_file_id = @ + 1000]]

(***************************************************************************)
(* State.                                                                  *)
(***************************************************************************)
VARIABLES
    sentence_cache,    \* the cached result of get_sentence_items()
    word_cache,        \* the cached result of get_word_items()
    call,              \* call[c]: the locals of call c of build_main_items_for_participant
    ss,                \* ss[s]: st.session_state of session s, with the notice it shows
    survey_sheet,      \* the rows of the survey sheet
    transcript_sheet,  \* the rows of the transcript sheet
    now,               \* the clock read by datetime.now
    main_items_cache,  \* @st.cache_data: the main_items returned, per participant_id
    unknown_id,        \* unknown_id[s]: the id session s last had rejected as unknown
                       \* (history; an id the session generated itself is not noted)
    resume_log,        \* resume_log[pid]: the page index chosen by the first resume of
                       \* pid that was noted, and how many were noted, counted up to 2
                       \* (history, kept where the sheets do not change)
    dl,                \* dl[c]: the locals of call c of download_file_bytes, with the
                       \* number of attempts that failed so far (history)
    gen,               \* gen[c]: the locals of run c of the "Generate my participant
                       \* ID" handler, with the session fields it sets
    saving             \* saving[c]: the locals of run c of the survey save of the
                       \* headphone check, in a session of its own

bvars == <<sentence_cache, word_cache, call>>
svars == <<ss, survey_sheet, transcript_sheet, now, main_items_cache, unknown_id,
          resume_log>>
\* the calls in flight that belong to no session page
cvars == <<dl, gen, saving>>
vars == <<sentence_cache, word_cache, call, ss, survey_sheet, transcript_sheet,
          now, main_items_cache, unknown_id, resume_log, dl, gen, saving>>

(***************************************************************************)
(* download_file_bytes: the files of the Drive folder and the locals of a  *)
(* call.                                                                   *)
(***************************************************************************)
\* the file ids a call may be given
FileIds == {"f1", "f2"}

\* the content of a file, in the chunks next_chunk delivers
FileBytes(file_id) == IF file_id = "f1" THEN <<"a">> ELSE <<"b", "c">>

\* what an attempt may raise: ssl.SSLError or another Exception
DownloadErrors == {"SSLError", "Exception"}

IdleDownload == [pc |-> "idle", file_id |-> "", attempt |-> 0, fh |-> <<>>,
                 last_err |-> "none", result |-> <<>>, failed |-> 0]

\* a handler that gives up on the first failure
IsLastAttemptAlways(attempt) == attempt >= 0
\* lines 158-169: "if attempt == 0: continue / else: raise" over range(2)
IsLastAttempt(attempt) == attempt # 0

\* lines 158-169: the except clauses, for the locals d and the error e
Failed(d, e) ==
    IF IsLastAttempt(d.attempt)
    THEN [d EXCEPT !.last_err = e, !.failed = @ + 1, !.pc = "raised"]
    ELSE [d EXCEPT !.last_err = e, !.failed = @ + 1, !.pc = "attempt",
                   !.attempt = @ + 1]

\* lines 135-143: the call, entering the loop with attempt 0
CallDownload(c) ==
    /\ dl[c].pc = "idle"
    /\ \E file_id \in FileIds :
         dl' = [dl EXCEPT ![c] = [IdleDownload EXCEPT !.pc = "attempt",
                                                      !.file_id = file_id]]
    /\ UNCHANGED <<gen, saving>>
    /\ UNCHANGED bvars
    /\ UNCHANGED svars

\* lines 144-149: the Drive client, the request and a new, empty BytesIO; any
\* of the calls may raise
StartAttempt(c) ==
    /\ dl[c].pc = "attempt"
    /\ \/ dl' = [dl EXCEPT ![c] = [@ EXCEPT !.pc = "chunks", !.fh = <<>>]]
       \/ \E e \in DownloadErrors : dl' = [dl EXCEPT ![c] = Failed(@, e)]
    /\ UNCHANGED <<gen, saving>>
    /\ UNCHANGED bvars
    /\ UNCHANGED svars

\* lines 151-156: one next_chunk, which writes the chunk to fh or raises; after
\* the last chunk the bytes of fh are returned
NextChunk(c) ==
    /\ dl[c].pc = "chunks"
    /\ LET d == dl[c]
           content == FileBytes(d.file_id)
           fh == Append(d.fh, content[Len(d.fh) + 1])
           done == Len(fh) = Len(content)
       IN \/ dl' = [dl EXCEPT ![c] =
                       IF done
                       THEN [d EXCEPT !.fh = fh, !.pc = "returned", !.result = fh]
                       ELSE [d EXCEPT !.fh = fh]]
          \/ \E e \in DownloadErrors : dl' = [dl EXCEPT ![c] = Failed(d, e)]
    /\ UNCHANGED <<gen, saving>>
    /\ UNCHANGED bvars
    /\ UNCHANGED svars


IdleCall == [pc |-> "idle", pid |-> "", rng |-> 0,
             sent_groups |-> EmptyDict, word_groups |-> EmptyDict,
             blocks |-> <<>>, result |-> <<>>, err |-> "none", short |-> "none"]

\* list(cached): a new list with the same items; the cached list is not touched
CopyList(list) == list

\* lines 441-450: seed the generator, copy the pools, group the sentences
CallBuild(c) ==
    /\ call[c].pc = "idle"
    /\ \E pid \in Pids :
         LET sentence_items == CopyList(sentence_cache)
         IN call' = [call EXCEPT ![c] =
                [@ EXCEPT !.pc = "check_sent", !.pid = pid,
                          !.rng = NewRandom(pid, c),
                          !.sent_groups = GroupItems(sentence_items)]]
    /\ UNCHANGED <<sentence_cache, word_cache>>
    /\ UNCHANGED svars
    /\ UNCHANGED cvars

\* lines 452-466: the sentence counts, then group the words
CheckSent(c) ==
    /\ call[c].pc = "check_sent"
    /\ LET g == ShortSentGroup(call[c].sent_groups)
           word_items == CopyList(word_cache)
       IN IF g # "none"
          THEN call' = [call EXCEPT ![c] =
                  [@ EXCEPT !.pc = "raised", !.err = "ValueError", !.short = g]]
          ELSE call' = [call EXCEPT ![c] =
                  [@ EXCEPT !.pc = "check_word",
                            !.word_groups = GroupItems(word_items)]]
    /\ UNCHANGED <<sentence_cache, word_cache>>
    /\ UNCHANGED svars
    /\ UNCHANGED cvars

\* lines 468-476: the word counts
CheckWord(c) ==
    /\ call[c].pc = "check_word"
    /\ LET g == ShortWordGroup(call[c].word_groups)
       IN IF g # "none"
          THEN call' = [call EXCEPT ![c] =
                  [@ EXCEPT !.pc = "raised", !.err = "ValueError", !.short = g]]
          ELSE call' = [call EXCEPT ![c] = [@ EXCEPT !.pc = "shuffle"]]
    /\ UNCHANGED <<sentence_cache, word_cache>>
    /\ UNCHANGED svars
    /\ UNCHANGED cvars

\* lines 478-484: shuffle every group list, sentences first
ShuffleStep(c) ==
    /\ call[c].pc = "shuffle"
    /\ LET s == ShuffleGroups(call[c].sent_groups, call[c].rng)
           w == ShuffleGroups(call[c].word_groups, s.rng)
       IN call' = [call EXCEPT ![c] =
              [@ EXCEPT !.pc = "blocks", !.sent_groups = s.dict,
                        !.word_groups = w.dict, !.rng = w.rng]]
    /\ UNCHANGED <<sentence_cache, word_cache>>
    /\ UNCHANGED svars
    /\ UNCHANGED cvars

\* a pop that reaches the cached list: the item leaves it
CacheLosingItem(cached, item) ==
    SelectSeq(cached, LAMBDA it : it.audio_id # item.audio_id)
\* lines 443-450 and 506, 518: the list that pop() shortens is a group list
\* built by the call from its own copy of the pool; the cached list keeps the
\* item
CacheAfterPop(cached, item) == cached

\* the cached list after the pops of one pass of the block loop: the items of
\* the given kind in block_items
RECURSIVE CacheAfterDraws(_, _, _, _)
CacheAfterDraws(cached, block_items, kind, k) ==
    IF k > Len(block_items) THEN cached
    ELSE CacheAfterDraws(IF block_items[k].kind = kind
                         THEN CacheAfterPop(cached, block_items[k]) ELSE cached,
                         block_items, kind, k + 1)

\* lines 486-530: one pass of the block loop
BlockStep(c) ==
    /\ call[c].pc = "blocks"
    /\ Len(call[c].blocks) < NumBlocks
    /\ LET b == BuildBlock(Len(call[c].blocks), call[c].sent_groups,
                           call[c].word_groups, call[c].rng)
       IN /\ IF b.err # "none"
             THEN call' = [call EXCEPT ![c] =
                     [@ EXCEPT !.pc = "raised", !.err = b.err,
                               !.sent_groups = b.sent_groups,
                               !.word_groups = b.word_groups]]
             ELSE call' = [call EXCEPT ![c] =
                     [@ EXCEPT !.blocks = Append(@, b.block),
                               !.sent_groups = b.sent_groups,
                               !.word_groups = b.word_groups, !.rng = b.rng]]
          /\ sentence_cache' = CacheAfterDraws(sentence_cache, b.block, "sentence", 1)
          /\ word_cache' = CacheAfterDraws(word_cache, b.block, "word", 1)
    /\ UNCHANGED svars
    /\ UNCHANGED cvars

\* lines 532-546: flatten the blocks into main_items and return it
FlattenStep(c) ==
    /\ call[c].pc = "blocks"
    /\ Len(call[c].blocks) = NumBlocks
    /\ call' = [call EXCEPT ![c] =
           [@ EXCEPT !.pc = "returned", !.result = Flatten(call[c].blocks)]]
    /\ UNCHANGED <<sentence_cache, word_cache>>
    /\ UNCHANGED svars
    /\ UNCHANGED cvars


(***************************************************************************)
(* build_main_items_for_participant as one call, for the page handlers:    *)
(* the same steps composed.                                                *)
(***************************************************************************)
RECURSIVE BuildBlocksFrom(_, _, _, _, _)
BuildBlocksFrom(block_idx, sg, wg, r, blocks) ==
    IF block_idx >= NumBlocks THEN [err |-> "none", blocks |-> blocks]
    ELSE LET b == BuildBlock(block_idx, sg, wg, r)
         IN IF b.err # "none" THEN [err |-> b.err, blocks |-> blocks]
            ELSE BuildBlocksFrom(block_idx + 1, b.sent_groups, b.word_groups,
                                 b.rng, Append(blocks, b.block))

BuildMainItems(pid, sentences, words) ==
    LET sg == GroupItems(CopyList(sentences))
        wg == GroupItems(CopyList(words))
        s == ShuffleGroups(sg, NewRandom(pid, 0))
        w == ShuffleGroups(wg, s.rng)
        bs == BuildBlocksFrom(0, s.dict, w.dict, w.rng, <<>>)
    IN IF ShortSentGroup(sg) # "none" \/ ShortWordGroup(wg) # "none"
       THEN [err |-> "ValueError", main_items |-> <<>>]
       ELSE IF bs.err # "none" THEN [err |-> bs.err, main_items |-> <<>>]
       ELSE [err |-> "none", main_items |-> Flatten(bs.blocks)]

\* the pools of the running study: every group one item above its minimum
StudySentences == SentencePool("forward", "all", 1)
StudyWords == WordPool("forward", "all", 1)

\* build_main_items_for_participant(pid) under @st.cache_data: the main_items
\* kept for the participant id
main_items_of(pid) == main_items_cache[pid]

(***************************************************************************)
(* Pages.                                                                  *)
(***************************************************************************)
LOGIN_PAGE == "login"
FINAL_PAGE == "thank_you"
BASE_PAGES == <<LOGIN_PAGE, "intro", "screening", "headphone_instructions",
                "headphone", "instructions">>

\* list(main_items.keys())
item_pages_of(pid) ==
    [k \in 1..Len(main_items_of(pid)) |-> main_items_of(pid)[k].page_name]

\* a page list that lacks the closing page
get_pages_open(pid) ==
    IF pid = "" THEN <<LOGIN_PAGE>> ELSE BASE_PAGES \o item_pages_of(pid)
\* get_pages() for a session whose participant_id is pid
get_pages(pid) ==
    IF pid = "" THEN <<LOGIN_PAGE>>
    ELSE BASE_PAGES \o item_pages_of(pid) \o <<FINAL_PAGE>>

\* name in list
InList(list, name) == \E k \in 1..Len(list) : list[k] = name

\* list.index(name), 0-based; the name is in the list
IndexOf(list, name) ==
    (CHOOSE k \in 1..Len(list) :
        list[k] = name /\ \A j \in 1..(k - 1) : list[j] # name) - 1

\* str.strip() on the strings of the model
Strip(str) == CASE str = " " -> ""
                [] str = " p1 " -> "p1"
                [] OTHER -> str

(***************************************************************************)
(* The two sheets: lists of rows, the header row first.                    *)
(***************************************************************************)
SurveyHeader == <<"timestamp_utc", "participant_id", "q1", "q2", "q3", "q4",
                  "q5", "q6", "hp1", "hp2", "hp3", "hp4">>
TranscriptHeader == <<"timestamp_utc", "participant_id", "audio_id", "start_time",
                      "end_time", "duration_sec", "first_transcript",
                      "second_transcript">>

\* rows[1:]
DataRows(rows) == IF Len(rows) = 0 THEN <<>> ELSE Tail(rows)

\* stub_row = ["", new_id] + [""] * 10
StubRow(pid) == <<"", pid, "", "", "", "", "", "", "", "", "", "">>

\* worksheet.find(value, in_column=2): the number of the first row whose
\* second cell is the value, 0 when there is none
FindRow(sheet, value) ==
    IF \E k \in 1..Len(sheet) : Len(sheet[k]) > 1 /\ sheet[k][2] = value
    THEN CHOOSE k \in 1..Len(sheet) :
            /\ Len(sheet[k]) > 1 /\ sheet[k][2] = value
            /\ \A j \in 1..(k - 1) : ~(Len(sheet[j]) > 1 /\ sheet[j][2] = value)
    ELSE 0

\* the ids of column 2 of a sheet read by get_existing_participant_ids
IdsOfSheet(sheet) ==
    {Strip(DataRows(sheet)[k][2]) :
        k \in {j \in 1..Len(DataRows(sheet)) :
                  Len(DataRows(sheet)[j]) > 1 /\ Strip(DataRows(sheet)[j][2]) # ""}}

(***************************************************************************)
(* State of the sessions and the sheets.                                   *)
(***************************************************************************)
Sessions == {1}

NoAnswers == <<>>

\* a session that starts on the second page without an id
InitialSessionAtIntro ==
    [participant_id |-> "", new_id_ready |-> FALSE, screening_answers |-> NoAnswers,
     survey_saved |-> FALSE, item_start_times |-> <<>>, item_audio_shown |-> <<>>,
     page_index |-> 1, login_mode |-> "new", notice |-> "none"]
\* lines 599-621
InitialSession ==
    [participant_id |-> "", new_id_ready |-> FALSE, screening_answers |-> NoAnswers,
     survey_saved |-> FALSE, item_start_times |-> <<>>, item_audio_shown |-> <<>>,
     page_index |-> 0, login_mode |-> "new", notice |-> "none"]

\* get_pages()[index] and len(get_pages()), read off the three parts of the list
PageAt(pid, index) ==
    IF pid = "" THEN LOGIN_PAGE
    ELSE IF index < Len(BASE_PAGES) THEN BASE_PAGES[index + 1]
    ELSE IF index < Len(BASE_PAGES) + Len(main_items_of(pid))
    THEN main_items_of(pid)[index - Len(BASE_PAGES) + 1].page_name
    ELSE FINAL_PAGE

PagesLen(pid) ==
    IF pid = "" THEN 1 ELSE Len(BASE_PAGES) + Len(main_items_of(pid)) + 1

\* a range check that also takes the last index for out of range
RouteLastOut(st) ==
    IF st.page_index >= PagesLen(st.participant_id) - 1 /\ st.page_index > 0
    THEN [st EXCEPT !.page_index = 0] ELSE st
\* main(), lines 1207-1210: the range check on page_index
Route(st) ==
    IF st.page_index >= PagesLen(st.participant_id)
    THEN [st EXCEPT !.page_index = 0] ELSE st

\* main(), line 1212
CurrentPage(st) == PageAt(st.participant_id, Route(st).page_index)

\* a go_next_page that moves two pages on
go_two_pages(st) ==
    IF st.page_index < PagesLen(st.participant_id) - 2
    THEN [st EXCEPT !.page_index = @ + 2] ELSE st
\* go_next_page(), lines 624-629
go_next_page(st) ==
    IF st.page_index < PagesLen(st.participant_id) - 1
    THEN [st EXCEPT !.page_index = @ + 1] ELSE st

(***************************************************************************)
(* render_login: the resume decision, lines 714-784.                       *)
(***************************************************************************)
\* lines 718-722: the first data row whose second cell is pid, 0 when none
RowForPid(survey_rows, pid) == 
    LET rows == DataRows(survey_rows)
    IN IF \E k \in 1..Len(rows) : Len(rows[k]) > 1 /\ rows[k][2] = pid
       THEN CHOOSE k \in 1..Len(rows) :
               /\ Len(rows[k]) > 1 /\ rows[k][2] = pid
               /\ \A j \in 1..(k - 1) : ~(Len(rows[j]) > 1 /\ rows[j][2] = pid)
       ELSE 0

\* line 728: row_for_pid + [""] * (12 - len(row_for_pid))
Padded(row) == row \o [k \in 1..(12 - Len(row)) |-> ""]

\* a completeness check that looks at the screening cells q1..q6 only
IsCompleteScreeningOnly(row) == \A k \in 3..8 : Strip(Padded(row)[k]) # ""
\* a completeness check that also passes the row of an id some session holds
IsCompleteRowOrHeld(row) ==
    \/ \A k \in 3..12 : Strip(Padded(row)[k]) # ""
    \/ \E s \in DOMAIN ss : Len(row) > 1 /\ ss[s].participant_id = row[2]
\* lines 729-730: all((c or "").strip() != "" for c in padded[2:12])
IsCompleteRow(row) == \A k \in 3..12 : Strip(Padded(row)[k]) # ""

\* a lookup that finds no transcript row
HasTranscriptsNever(trans_rows, pid) == FALSE
\* lines 733-735, the data rows being rows 2.. of the sheet
HasTranscripts(trans_rows, pid) ==
    \E k \in 2..Len(trans_rows) : Len(trans_rows[k]) > 1 /\ trans_rows[k][2] = pid

\* lines 745-748, the data rows being rows 2.. of the sheet
CompletedAudioIds(trans_rows, pid) ==
    {trans_rows[k][3] :
        k \in {j \in 2..Len(trans_rows) :
                  Len(trans_rows[j]) > 2 /\ trans_rows[j][2] = pid}}

\* a choice of the next item by the number of completed ids
NextAudioPageByCount(main_items, completed) ==
    IF Cardinality(completed) >= Len(main_items) THEN "None"
    ELSE main_items[Cardinality(completed) + 1].page_name
\* lines 774-779: the first page whose audio_id is not completed, "None" when
\* every one is
NextAudioPage(main_items, completed) ==
    IF \A k \in 1..Len(main_items) : main_items[k].audio_id \in completed
    THEN "None"
    ELSE main_items[CHOOSE k \in 1..Len(main_items) :
                       /\ main_items[k].audio_id \notin completed
                       /\ \A j \in 1..(k - 1) : main_items[j].audio_id \in completed
                   ].page_name

\* a first page that skips item_1
FirstItemPageSkipping(item_pages) ==
    IF Len(item_pages) > 1 THEN item_pages[2] ELSE FINAL_PAGE
\* line 771: item_pages[0] if item_pages else FINAL_PAGE
FirstItemPage(item_pages) ==
    IF Len(item_pages) > 0 THEN item_pages[1] ELSE FINAL_PAGE

\* lines 717-784 for the rows read: "unknown", or the page to resume at
ResumeDecision(pid, survey_rows, trans_rows) ==
    LET k == RowForPid(survey_rows, pid)
        has_survey_row == k # 0
        is_complete_survey ==
            IF has_survey_row THEN IsCompleteRow(DataRows(survey_rows)[k]) ELSE FALSE
        has_transcripts == HasTranscripts(trans_rows, pid)
        completed_audio_ids == CompletedAudioIds(trans_rows, pid)
        main_items == main_items_of(pid)
        pages == get_pages(pid)
        item_pages == item_pages_of(pid)
        next_audio_page == NextAudioPage(main_items, completed_audio_ids)
        next_page ==
            IF ~is_complete_survey
            THEN (IF InList(pages, "screening") THEN "screening" ELSE "intro")
            ELSE IF ~has_transcripts THEN FirstItemPage(item_pages)
            ELSE IF next_audio_page = "None" THEN FINAL_PAGE
            ELSE next_audio_page
    IN IF ~(has_survey_row \/ has_transcripts)
       THEN [kind |-> "unknown", is_complete_survey |-> is_complete_survey,
             next_page |-> "None"]
       ELSE [kind |-> "resume", is_complete_survey |-> is_complete_survey,
             next_page |-> next_page]

(***************************************************************************)
(* render_login: the handlers of the login page.                           *)
(***************************************************************************)
OnPage(s, page) == CurrentPage(ss[s]) = page

LoginModes == {"new", "returning"}

\* what a participant may type into the id field
TypedIds == {"", "p1", " p1 ", "p2"}

\* no resume noted yet
NoResumeLog == [pid \in Pids |-> [step |-> 0 - 1, count |-> 0]]

\* the log after a resume of pid that chose the page index step
LogResume(log, pid, step) ==
    [log EXCEPT ![pid] = [step |-> IF @.count = 0 THEN step ELSE @.step,
                          count |-> IF @.count < 2 THEN @.count + 1 ELSE 2]]

\* st.radio(..., key="login_mode"): the participant picks the other mode
SwitchMode(s) ==
    /\ OnPage(s, LOGIN_PAGE)
    /\ \E mode \in LoginModes :
         /\ mode # ss[s].login_mode
         /\ ss' = [ss EXCEPT ![s] = [Route(@) EXCEPT !.login_mode = mode,
                                                    !.notice = "none"]]
    /\ UNCHANGED <<survey_sheet, transcript_sheet, now, main_items_cache, unknown_id,
                   resume_log>>
    /\ UNCHANGED bvars
    /\ UNCHANGED cvars

\* get_existing_participant_ids(), lines 74-103: a sheet that cannot be read
\* contributes no id
ExistingIds(ok_survey, ok_transcript) ==
    (IF ok_survey THEN IdsOfSheet(survey_sheet) ELSE {})
        \cup (IF ok_transcript THEN IdsOfSheet(transcript_sheet) ELSE {})

\* uuid.uuid4(), line 110: the draws of the whole flow are ids that no row of
\* the sheets carries yet (a uuid4 draw does not repeat a recorded id)
Uuid4Draws == Pids \ ExistingIds(TRUE, TRUE)

\* lines 656-678: "Generate my participant ID"
GenerateId(s) ==
    /\ OnPage(s, LOGIN_PAGE)
    /\ ss[s].login_mode = "new"
    /\ ~ss[s].new_id_ready
    /\ \E ok_survey \in BOOLEAN, ok_transcript \in BOOLEAN, ok_append \in BOOLEAN,
          candidate \in Uuid4Draws :
         /\ candidate \notin ExistingIds(ok_survey, ok_transcript)
         /\ ok_append => Len(survey_sheet) < MaxSurveyRows
         /\ ss' = [ss EXCEPT ![s] =
                [Route(@) EXCEPT !.participant_id = candidate,
                                 !.screening_answers = NoAnswers,
                                 !.survey_saved = FALSE,
                                 !.item_start_times = <<>>,
                                 !.item_audio_shown = <<>>,
                                 !.new_id_ready = TRUE,
                                 !.notice = "none"]]
         /\ survey_sheet' = IF ok_append THEN Append(survey_sheet, StubRow(candidate))
                            ELSE survey_sheet
         /\ unknown_id' = [t \in Sessions |->
                IF unknown_id[t] = candidate THEN "" ELSE unknown_id[t]]
         /\ UNCHANGED resume_log
    /\ UNCHANGED <<transcript_sheet, now, main_items_cache>>
    /\ UNCHANGED bvars
    /\ UNCHANGED cvars

\* lines 687-694: "Start the study"
StartStudy(s) ==
    /\ OnPage(s, LOGIN_PAGE)
    /\ ss[s].login_mode = "new"
    /\ ss[s].new_id_ready
    /\ LET st == Route(ss[s])
           pages == get_pages(st.participant_id)
       IN ss' = [ss EXCEPT ![s] =
              [st EXCEPT !.page_index = IF InList(pages, "intro")
                                        THEN IndexOf(pages, "intro") ELSE 0,
                         !.new_id_ready = FALSE,
                         !.notice = "none"]]
    /\ UNCHANGED <<survey_sheet, transcript_sheet, now, main_items_cache, unknown_id>>
    /\ UNCHANGED resume_log
    /\ UNCHANGED bvars
    /\ UNCHANGED cvars

\* lines 702-799: "Resume with this ID", the history of resumes left aside
ResumePressWith(s, typed, ok_read) ==
    /\ OnPage(s, LOGIN_PAGE)
    /\ ss[s].login_mode = "returning"
    /\   LET st == Route(ss[s])
             pid == Strip(typed)
             pages == get_pages(pid)
         IN IF pid = ""
            THEN /\ ss' = [ss EXCEPT ![s] = [st EXCEPT !.notice = "enter_id"]]
                 /\ UNCHANGED unknown_id
            ELSE IF ~ok_read
            THEN /\ ss' = [ss EXCEPT ![s] = [st EXCEPT !.participant_id = pid,
                                                       !.notice = "resume_error"]]
                 /\ UNCHANGED unknown_id
            ELSE \E d \in {ResumeDecision(pid, survey_sheet, transcript_sheet)} :
                 IF d.kind = "unknown"
                 THEN /\ ss' = [ss EXCEPT ![s] = [st EXCEPT !.participant_id = pid,
                                                            !.notice = "unknown_id"]]
                      /\ unknown_id' = [unknown_id EXCEPT ![s] =
                             IF st.new_id_ready /\ st.participant_id = pid THEN @ ELSE pid]
                 ELSE IF ~InList(pages, d.next_page)
                 THEN /\ ss' = [ss EXCEPT ![s] =
                             [st EXCEPT !.participant_id = pid,
                                        !.survey_saved = d.is_complete_survey,
                                        !.screening_answers = NoAnswers,
                                        !.notice = "no_resume_page"]]
                      /\ UNCHANGED unknown_id
                 ELSE /\ ss' = [ss EXCEPT ![s] =
                             [st EXCEPT !.participant_id = pid,
                                        !.survey_saved = d.is_complete_survey,
                                        !.screening_answers = NoAnswers,
                                        !.page_index = IndexOf(pages, d.next_page),
                                        !.new_id_ready = FALSE,
                                        !.notice = "resuming"]]
                      /\ unknown_id' = [unknown_id EXCEPT ![s] = IF @ = pid THEN "" ELSE @]
    /\ UNCHANGED <<survey_sheet, transcript_sheet, now, main_items_cache>>
    /\ UNCHANGED bvars
    /\ UNCHANGED cvars

ResumePress(s) ==
    \E typed \in TypedIds, ok_read \in BOOLEAN : ResumePressWith(s, typed, ok_read)

\* "Resume with this ID"
Resume(s) == ResumePress(s) /\ UNCHANGED resume_log

\* "Resume with this ID", the page index it chose noted in resume_log
ResumeLogged(s) ==
    /\ ResumePress(s)
    /\ resume_log' = IF ss'[s].notice = "resuming"
                     THEN LogResume(resume_log, ss'[s].participant_id, ss'[s].page_index)
                     ELSE resume_log

\* the participant leaves and opens the app again: a new session state
NewSession(s) ==
    /\ ss[s] # InitialSession
    /\ ss' = [ss EXCEPT ![s] = InitialSession]
    /\ unknown_id' = [unknown_id EXCEPT ![s] = ""]
    /\ UNCHANGED <<survey_sheet, transcript_sheet, now, main_items_cache, resume_log>>
    /\ UNCHANGED bvars
    /\ UNCHANGED cvars

(***************************************************************************)
(* The pages after login.                                                  *)
(***************************************************************************)

\* Python's None for a radio left unanswered
None == "None"

\* what the screening form may hold on submit: q1..q6
ScreeningInputs ==
    { <<"Yes", "18-24", "f", "College", "No", "passing">>,
      <<None, "18-24", "f", "College", "No", "passing">>,
      <<"Yes", "18-24", " ", "College", "No", "passing">> }

\* what the headphone form may hold on submit: hp1..hp4
HeadphoneInputs ==
    { <<"feed", "lift", "storm", "hair">>,
      <<"feed", None, "storm", "hair">> }

\* what the two transcript boxes may hold on submit
TranscriptInputs == {"", " ", "word"}

\* lines 829-830 (intro), 919-920 (headphone_instructions), 1061-1062
\* (instructions): "Next"
PressNext(s) ==
    /\ \/ OnPage(s, "intro")
       \/ OnPage(s, "headphone_instructions")
       \/ OnPage(s, "instructions") /\ ss[s].participant_id # ""
    /\ ss' = [ss EXCEPT ![s] = [go_next_page(Route(@)) EXCEPT !.notice = "none"]]
    /\ UNCHANGED <<survey_sheet, transcript_sheet, now, main_items_cache, unknown_id>>
    /\ UNCHANGED resume_log
    /\ UNCHANGED bvars
    /\ UNCHANGED cvars

\* lines 883-901: "Submit & Next" of the screening form
SubmitScreeningWith(s, q) ==
    /\ OnPage(s, "screening")
    /\   LET st == Route(ss[s])
             missing_radio == \E k \in {1, 2, 4, 5, 6} : q[k] = None
         IN IF missing_radio \/ Strip(q[3]) = ""
            THEN ss' = [ss EXCEPT ![s] = [st EXCEPT !.notice = "answer_all"]]
            ELSE ss' = [ss EXCEPT ![s] =
                    [go_next_page([st EXCEPT !.screening_answers = q])
                        EXCEPT !.notice = "none"]]
    /\ UNCHANGED <<survey_sheet, transcript_sheet, now, main_items_cache, unknown_id>>
    /\ UNCHANGED resume_log
    /\ UNCHANGED bvars
    /\ UNCHANGED cvars

SubmitScreening(s) == \E q \in ScreeningInputs : SubmitScreeningWith(s, q)

\* how the calls of lines 1005-1012 may end: find and update succeed
\* ("update"); find or update raises and append_row succeeds ("append");
\* append_row raises too ("fail")
SaveOutcomes == {"update", "append", "fail"}

\* lines 983-1001
FullRow(timestamp, p_id, q, hp) ==
    <<timestamp, p_id, q[1], q[2], q[3], q[4], q[5], q[6], hp[1], hp[2], hp[3], hp[4]>>

\* lines 923-1020: "Submit & Next" of the headphone form, for the answers hp,
\* get_worksheet succeeding or not (ok_ws) and the save ending as save
SubmitHeadphoneWith(s, hp, ok_ws, save) ==
    /\ OnPage(s, "headphone")
    /\ LET st == Route(ss[s])
           p_id == st.participant_id
           full_row == FullRow(ToString(now), p_id, st.screening_answers, hp)
           row_idx == FindRow(survey_sheet, p_id)
       IN IF st.screening_answers = NoAnswers /\ ~st.survey_saved
          THEN /\ ss' = [ss EXCEPT ![s] = [st EXCEPT !.notice = "no_screening_answers"]]
               /\ UNCHANGED <<survey_sheet, now>>
          ELSE IF ~ok_ws
          THEN /\ ss' = [ss EXCEPT ![s] = [st EXCEPT !.notice = "sheet_error"]]
               /\ UNCHANGED <<survey_sheet, now>>
          ELSE IF \E k \in 1..4 : hp[k] = None
          THEN /\ ss' = [ss EXCEPT ![s] = [st EXCEPT !.notice = "answer_all"]]
               /\ UNCHANGED <<survey_sheet, now>>
          ELSE IF st.survey_saved
          THEN /\ ss' = [ss EXCEPT ![s] = [go_next_page(st) EXCEPT !.notice = "none"]]
               /\ UNCHANGED <<survey_sheet, now>>
          ELSE /\ now < MaxTime
               /\ now' = now + 1
               /\ IF save = "update" /\ row_idx # 0
                  THEN /\ survey_sheet' = [survey_sheet EXCEPT ![row_idx] = full_row]
                       /\ ss' = [ss EXCEPT ![s] =
                              [go_next_page([st EXCEPT !.survey_saved = TRUE])
                                  EXCEPT !.notice = "none"]]
                  ELSE IF save # "fail"
                  THEN /\ Len(survey_sheet) < MaxSurveyRows
                       /\ survey_sheet' = Append(survey_sheet, full_row)
                       /\ ss' = [ss EXCEPT ![s] =
                              [go_next_page([st EXCEPT !.survey_saved = TRUE])
                                  EXCEPT !.notice = "none"]]
                  ELSE /\ UNCHANGED survey_sheet
                       /\ ss' = [ss EXCEPT ![s] = [st EXCEPT !.notice = "save_error"]]
    /\ UNCHANGED <<transcript_sheet, main_items_cache, unknown_id>>
    /\ UNCHANGED resume_log
    /\ UNCHANGED bvars
    /\ UNCHANGED cvars

SubmitHeadphone(s) ==
    \E hp \in HeadphoneInputs, ok_ws \in BOOLEAN, save \in SaveOutcomes :
        SubmitHeadphoneWith(s, hp, ok_ws, save)

\* the current page is one of the participant's item pages
OnItemPage(s) ==
    /\ ss[s].participant_id # ""
    /\ Route(ss[s]).page_index >= Len(BASE_PAGES)
    /\ Route(ss[s]).page_index < Len(BASE_PAGES) + Len(main_items_of(ss[s].participant_id))

\* a lookup that gives the first item for every page
ItemConfigFirst(pid, page_name) == main_items_of(pid)[1]
\* main_items[current_page]
ItemConfig(pid, page_name) ==
    main_items_of(pid)[CHOOSE k \in 1..Len(main_items_of(pid)) :
                          main_items_of(pid)[k].page_name = page_name]

\* a default that is written on every render, whatever the flag holds
WithShownReset(st, page_name) ==
    [st EXCEPT !.item_audio_shown = (page_name :> FALSE) @@ @]
\* lines 1076-1077: item_audio_shown gets the page, False, when it lacks it
WithShownDefault(st, page_name) ==
    IF page_name \in DOMAIN st.item_audio_shown THEN st
    ELSE [st EXCEPT !.item_audio_shown = (page_name :> FALSE) @@ @]

\* a delete that leaves the key in place
DictKeep(d, key) == d
\* del d[key]
DictDel(d, key) == [k \in (DOMAIN d) \ {key} |-> d[k]]
\* d[key] = value
DictSet(d, key, value) == (key :> value) @@ d

\* lines 1065-1103: "Start & show audio"
RevealItemWith(s, ok_ws) ==
    /\ OnItemPage(s)
    /\   LET page_name == CurrentPage(ss[s])
             st0 == Route(ss[s])
             st == WithShownDefault(st0, page_name)
         IN /\ ~st.item_audio_shown[page_name]
            /\ IF ~ok_ws
               THEN /\ ss' = [ss EXCEPT ![s] = [st0 EXCEPT !.notice = "sheet_error"]]
                    /\ UNCHANGED now
               ELSE /\ now < MaxTime
                    /\ now' = now + 1
                    /\ ss' = [ss EXCEPT ![s] =
                           [st EXCEPT !.item_start_times = DictSet(@, page_name, now),
                                      !.item_audio_shown = DictSet(@, page_name, TRUE),
                                      !.notice = "none"]]
    /\ UNCHANGED <<survey_sheet, transcript_sheet, main_items_cache, unknown_id>>
    /\ UNCHANGED resume_log
    /\ UNCHANGED bvars
    /\ UNCHANGED cvars

RevealItem(s) == \E ok_ws \in BOOLEAN : RevealItemWith(s, ok_ws)

\* a row that holds the end time in the start column and the start time in
\* the end column
TranscriptRowEndFirst(timestamp, participant_id, audio_id, start_time, end_time, first, second) ==
    <<ToString(timestamp), participant_id, audio_id, ToString(end_time),
      ToString(start_time), start_time - end_time, first, second>>
\* lines 1160-1169
TranscriptRow(timestamp, participant_id, audio_id, start_time, end_time, first, second) ==
    <<ToString(timestamp), participant_id, audio_id, ToString(start_time),
      ToString(end_time), end_time - start_time, first, second>>

\* an emptiness test that does not strip
IsEmptyText(text) == text = ""
\* lines 1145, 1148: not text.strip()
IsBlank(text) == Strip(text) = ""

\* lines 1065-1071 and 1140-1182: "Save & Next" of the transcription form, for
\* the two texts typed, get_worksheet succeeding or not (ok_ws) and append_row
\* succeeding or not (ok_append)
SubmitItemWith(s, first, second, ok_ws, ok_append) ==
    /\ OnItemPage(s)
    /\ LET page_name == CurrentPage(ss[s])
           st0 == Route(ss[s])
           st == WithShownDefault(st0, page_name)
           item_config == ItemConfig(st.participant_id, page_name)
       IN IF ~ok_ws
          THEN /\ ss' = [ss EXCEPT ![s] = [st0 EXCEPT !.notice = "sheet_error"]]
               /\ UNCHANGED <<transcript_sheet, now>>
          ELSE IF page_name \notin DOMAIN st.item_start_times
          THEN /\ ss' = [ss EXCEPT ![s] = [st EXCEPT !.notice = "start_first"]]
               /\ UNCHANGED <<transcript_sheet, now>>
          ELSE IF IsBlank(first)
          THEN /\ ss' = [ss EXCEPT ![s] = [st EXCEPT !.notice = "first_empty"]]
               /\ UNCHANGED <<transcript_sheet, now>>
          ELSE IF IsBlank(second)
          THEN /\ ss' = [ss EXCEPT ![s] = [st EXCEPT !.notice = "second_empty"]]
               /\ UNCHANGED <<transcript_sheet, now>>
          ELSE /\ now < MaxTime
               /\ now' = now + 1
               /\ IF ~ok_append
                  THEN /\ ss' = [ss EXCEPT ![s] = [st EXCEPT !.notice = "save_error"]]
                       /\ UNCHANGED transcript_sheet
                  ELSE /\ transcript_sheet' =
                              Append(transcript_sheet,
                                     TranscriptRow(now, st.participant_id,
                                                   item_config.audio_id,
                                                   st.item_start_times[page_name],
                                                   now, first, second))
                       /\ ss' = [ss EXCEPT ![s] =
                              [go_next_page(
                                  [st EXCEPT !.item_start_times = DictDel(@, page_name),
                                             !.item_audio_shown =
                                                 DictSet(@, page_name, FALSE)])
                                EXCEPT !.notice = "none"]]
    /\ UNCHANGED <<survey_sheet, main_items_cache, unknown_id>>
    /\ UNCHANGED resume_log
    /\ UNCHANGED bvars
    /\ UNCHANGED cvars

SubmitItem(s) ==
    \E first \in TranscriptInputs, second \in TranscriptInputs,
       ok_ws \in BOOLEAN, ok_append \in BOOLEAN :
        SubmitItemWith(s, first, second, ok_ws, ok_append)

(***************************************************************************)
(* generate_unique_participant_id inside the "Generate my participant ID"  *)
(* handler, step by step, so that two sessions can run it side by side.    *)
(***************************************************************************)
\* uuid.uuid4().hex[:10], line 110: the strings a draw can give
Uuid4Range == Pids

IdleGenerate == [pc |-> "idle", existing_ids |-> {}, participant_id |-> "",
                 new_id_ready |-> FALSE]

\* lines 81-90 and 92-101: the ids of a sheet, or none when reading it raises
IdsRead(ok, sheet) == IF ok THEN IdsOfSheet(sheet) ELSE {}

\* line 658 and 76-79: the button is pressed, ids = set()
CallGenerate(c) ==
    /\ gen[c].pc = "idle"
    /\ gen' = [gen EXCEPT ![c] = [IdleGenerate EXCEPT !.pc = "read_survey"]]
    /\ UNCHANGED <<dl, saving>>
    /\ UNCHANGED bvars
    /\ UNCHANGED svars

\* lines 81-90: the ids of the survey sheet
ReadSurveyIds(c) ==
    /\ gen[c].pc = "read_survey"
    /\ \E ok \in BOOLEAN :
         gen' = [gen EXCEPT ![c] =
                    [@ EXCEPT !.pc = "read_transcript",
                              !.existing_ids = @ \cup IdsRead(ok, survey_sheet)]]
    /\ UNCHANGED <<dl, saving>>
    /\ UNCHANGED bvars
    /\ UNCHANGED svars

\* lines 92-103: the ids of the transcript sheet
ReadTranscriptIds(c) ==
    /\ gen[c].pc = "read_transcript"
    /\ \E ok \in BOOLEAN :
         gen' = [gen EXCEPT ![c] =
                    [@ EXCEPT !.pc = "draw",
                              !.existing_ids = @ \cup IdsRead(ok, transcript_sheet)]]
    /\ UNCHANGED <<dl, saving>>
    /\ UNCHANGED bvars
    /\ UNCHANGED svars

\* lines 108-112 and 660-665: the draw that is not in existing_ids is returned
\* and stored in the session (a draw that is in existing_ids is drawn again)
DrawCandidate(c) ==
    /\ gen[c].pc = "draw"
    /\ \E candidate \in Uuid4Range :
         /\ candidate \notin gen[c].existing_ids
         /\ gen' = [gen EXCEPT ![c] =
                       [@ EXCEPT !.pc = "stub", !.participant_id = candidate,
                                 !.new_id_ready = TRUE]]
    /\ UNCHANGED <<dl, saving>>
    /\ UNCHANGED bvars
    /\ UNCHANGED svars

\* lines 670-678: the stub row is appended, or the append raises and the error
\* is shown
AppendStub(c) ==
    /\ gen[c].pc = "stub"
    /\ \E ok_append \in BOOLEAN :
         survey_sheet' = IF ok_append
                         THEN Append(survey_sheet, StubRow(gen[c].participant_id))
                         ELSE survey_sheet
    /\ gen' = [gen EXCEPT ![c] = [@ EXCEPT !.pc = "done"]]
    /\ UNCHANGED <<ss, transcript_sheet, now, main_items_cache, unknown_id, resume_log>>
    /\ UNCHANGED <<dl, saving>>
    /\ UNCHANGED bvars

(***************************************************************************)
(* The survey save of render_headphone_check, step by step, so that two    *)
(* sessions can save for the same participant id side by side.             *)
(***************************************************************************)
IdleSave == [pc |-> "idle", p_id |-> "", full_row |-> <<>>, row_idx |-> 0]

\* lines 981-1001: an accepted submit of a session that has not saved yet; the
\* timestamp is read and full_row built
CallSave(c) ==
    /\ saving[c].pc = "idle"
    /\ now < MaxTime
    /\ now' = now + 1
    /\ \E p_id \in Pids :
         saving' = [saving EXCEPT ![c] =
                     [pc |-> "find", p_id |-> p_id, row_idx |-> 0,
                      full_row |-> FullRow(ToString(now), p_id,
                                           <<"Yes", "18-24", "f", "College", "No", "passing">>,
                                           <<"feed", "lift", "storm", "hair">>)]]
    /\ UNCHANGED <<ss, survey_sheet, transcript_sheet, main_items_cache, unknown_id,
                   resume_log>>
    /\ UNCHANGED <<dl, gen>>
    /\ UNCHANGED bvars

\* lines 1006-1007: survey_ws.find(p_id, in_column=2) and cell.row; the call
\* raises, or no cell is found and cell.row raises, or row_idx is set
FindStub(c) ==
    /\ saving[c].pc = "find"
    /\ \E ok \in BOOLEAN :
         LET row_idx == FindRow(survey_sheet, saving[c].p_id)
         IN saving' = [saving EXCEPT ![c] =
                        IF ok /\ row_idx # 0
                        THEN [@ EXCEPT !.pc = "update", !.row_idx = row_idx]
                        ELSE [@ EXCEPT !.pc = "append"]]
    /\ UNCHANGED svars
    /\ UNCHANGED <<dl, gen>>
    /\ UNCHANGED bvars

\* lines 1009 and 1014: survey_ws.update of row row_idx, then survey_saved, or
\* the update raises into the inner except
UpdateRow(c) ==
    /\ saving[c].pc = "update"
    /\ \E ok \in BOOLEAN :
         IF ok
         THEN /\ survey_sheet' = [survey_sheet EXCEPT ![saving[c].row_idx] = saving[c].full_row]
              /\ saving' = [saving EXCEPT ![c] = [@ EXCEPT !.pc = "saved"]]
         ELSE /\ UNCHANGED survey_sheet
              /\ saving' = [saving EXCEPT ![c] = [@ EXCEPT !.pc = "append"]]
    /\ UNCHANGED <<ss, transcript_sheet, now, main_items_cache, unknown_id, resume_log>>
    /\ UNCHANGED <<dl, gen>>
    /\ UNCHANGED bvars

\* lines 1010-1018: survey_ws.append_row(full_row) in the inner except, then
\* survey_saved, or the error of the outer except
AppendRow(c) ==
    /\ saving[c].pc = "append"
    /\ \E ok \in BOOLEAN :
         IF ok
         THEN /\ survey_sheet' = Append(survey_sheet, saving[c].full_row)
              /\ saving' = [saving EXCEPT ![c] = [@ EXCEPT !.pc = "saved"]]
         ELSE /\ UNCHANGED survey_sheet
              /\ saving' = [saving EXCEPT ![c] = [@ EXCEPT !.pc = "error"]]
    /\ UNCHANGED <<ss, transcript_sheet, now, main_items_cache, unknown_id, resume_log>>
    /\ UNCHANGED <<dl, gen>>
    /\ UNCHANGED bvars

(***************************************************************************)
(* The sheets a run starts from: what earlier sessions and the study team  *)
(* left in them.                                                           *)
(***************************************************************************)
CompleteRow(pid) == FullRow("t", pid, <<"Yes", "18-24", "f", "College", "No", "passing">>,
                            <<"feed", "lift", "storm", "hair">>)

\* the survey rows of a participant, by kind
SurveyRowOf(pid, kind) ==
    CASE kind = "stub" -> StubRow(pid)
      [] kind = "complete" -> CompleteRow(pid)
      [] kind = "partial" -> [CompleteRow(pid) EXCEPT ![12] = ""]
      [] kind = "blank" -> [CompleteRow(pid) EXCEPT ![5] = " "]
      [] kind = "short" -> <<"", pid>>

SurveyShapes ==
    { <<>>, <<"stub">>, <<"partial">>, <<"blank">>, <<"short">>, <<"complete">> }

SurveyRowsOf(pid, shape) == [k \in 1..Len(shape) |-> SurveyRowOf(pid, shape[k])]

\* a transcript row of participant pid for the item at position k of the
\* assignment of participant owner
RowOfItem(pid, owner, k) ==
    TranscriptRow(0, pid, main_items_of(owner)[k].audio_id, 0, 0, "word", "word")

Coverages == {"none", "first", "second", "first_two", "all_but_last", "all", "all_but_first"}
SmallCoverages == {"none", "first", "second", "first_two"}

\* the assignment positions a coverage names, in the order of the rows
PositionsOf(coverage) ==
    CASE coverage = "none" -> <<>>
      [] coverage = "first" -> <<1>>
      [] coverage = "second" -> <<2>>
      [] coverage = "first_two" -> <<2, 1, 1>>
      [] coverage = "all_but_last" -> [k \in 1..99 |-> k]
      [] coverage = "all" -> [k \in 1..100 |-> 101 - k]
      [] coverage = "all_but_first" -> [k \in 1..99 |-> k + 1]

TranscriptRowsOf(pid, coverage) ==
    [k \in 1..Len(PositionsOf(coverage)) |-> RowOfItem(pid, pid, PositionsOf(coverage)[k])]

\* rows of another participant: a complete survey, and transcripts of the
\* clips that open the assignment of pid
OtherSurveyRows(other, present) == IF present THEN <<CompleteRow(other)>> ELSE <<>>
OtherTranscriptRows(other, pid, present) ==
    IF present THEN <<RowOfItem(other, pid, 1), RowOfItem(other, pid, 3)>> ELSE <<>>

InitSheets(shape, coverage, others) ==
    [survey |-> <<SurveyHeader>> \o OtherSurveyRows("p2", others)
                    \o SurveyRowsOf("p1", shape),
     transcript |-> <<TranscriptHeader>> \o OtherTranscriptRows("p2", "p1", others)
                    \o TranscriptRowsOf("p1", coverage)]

\* the sheets the resume decision is tried on
ResumeSheetsSet ==
    {InitSheets(shape, coverage, others) :
        shape \in SurveyShapes, coverage \in SmallCoverages, others \in BOOLEAN}
    \cup {InitSheets(shape, coverage, FALSE) :
        shape \in {<<"complete">>, <<"stub">>, <<>>}, coverage \in Coverages}

\* the sheets a run of the whole flow starts from
InitSheetsSet ==
    { InitSheets(<<>>, "none", FALSE),
      InitSheets(<<"stub">>, "none", TRUE),
      InitSheets(<<"complete">>, "first", FALSE),
      InitSheets(<<"complete">>, "all_but_last", FALSE) }

InitWith(sheets_set) ==
    /\ sentence_cache = StudySentences
    /\ word_cache = StudyWords
    /\ call = [c \in Calls |-> IdleCall]
    /\ ss = [s \in Sessions |-> InitialSession]
    /\ main_items_cache =
           [pid \in Pids |-> BuildMainItems(pid, StudySentences, StudyWords).main_items]
    /\ \E sheets \in sheets_set :
         /\ survey_sheet = sheets.survey
         /\ transcript_sheet = sheets.transcript
    /\ now = 0
    /\ unknown_id = [s \in Sessions |-> ""]
    /\ resume_log = NoResumeLog
    /\ dl = [c \in Calls |-> IdleDownload]
    /\ gen = [c \in Calls |-> IdleGenerate]
    /\ saving = [c \in Calls |-> IdleSave]

Init == InitWith(InitSheetsSet)

Next ==
    \E s \in Sessions :
        \/ SwitchMode(s)
        \/ GenerateId(s)
        \/ StartStudy(s)
        \/ Resume(s)
        \/ PressNext(s)
        \/ SubmitScreening(s)
        \/ SubmitHeadphone(s)
        \/ RevealItem(s)
        \/ SubmitItem(s)
        \/ NewSession(s)

Spec == Init /\ [][Next]_vars

(***************************************************************************)
(* The resume decision alone: a returning participant on the login page,   *)
(* over sheets of many shapes.                                             *)
(***************************************************************************)
InitResume == InitWith(ResumeSheetsSet)

NextResume ==
    \E s \in Sessions :
        \/ SwitchMode(s)
        \/ ResumeLogged(s)
        \/ NewSession(s)

SpecResume == InitResume /\ [][NextResume]_vars

(***************************************************************************)
(* The builder alone: two calls of build_main_items_for_participant over   *)
(* pools drawn around the required counts, no session running.             *)
(***************************************************************************)
SessionsIdle ==
    /\ ss = [s \in Sessions |-> InitialSession]
    /\ survey_sheet = <<SurveyHeader>>
    /\ transcript_sheet = <<TranscriptHeader>>
    /\ now = 0
    /\ main_items_cache = <<>>
    /\ unknown_id = [s \in Sessions |-> ""]
    /\ resume_log = NoResumeLog
    /\ dl = [c \in Calls |-> IdleDownload]
    /\ gen = [c \in Calls |-> IdleGenerate]
    /\ saving = [c \in Calls |-> IdleSave]

InitBuild ==
    /\ \E layout \in Layouts, dev \in Deviations, delta \in (0 - MaxShort)..MaxExtra :
         /\ sentence_cache = SentencePool(layout, dev, delta)
         /\ word_cache = WordPool(layout, dev, delta)
    /\ call = [c \in Calls |-> IdleCall]
    /\ SessionsIdle

NextBuild ==
    \E c \in Calls :
        \/ CallBuild(c)
        \/ CheckSent(c)
        \/ CheckWord(c)
        \/ ShuffleStep(c)
        \/ BlockStep(c)
        \/ FlattenStep(c)

SpecBuild == InitBuild /\ [][NextBuild]_vars

(***************************************************************************)
(* download_file_bytes alone: two calls running side by side.              *)
(***************************************************************************)
InitDownload ==
    /\ sentence_cache = StudySentences
    /\ word_cache = StudyWords
    /\ call = [c \in Calls |-> IdleCall]
    /\ SessionsIdle

NextDownload ==
    \E c \in Calls :
        \/ CallDownload(c)
        \/ StartAttempt(c)
        \/ NextChunk(c)

SpecDownload == InitDownload /\ [][NextDownload]_vars

(***************************************************************************)
(* The id generation alone: two sessions pressing "Generate my participant *)
(* ID" over the sheets earlier sessions left.                              *)
(***************************************************************************)
NextGenerate ==
    \E c \in Calls :
        \/ CallGenerate(c)
        \/ ReadSurveyIds(c)
        \/ ReadTranscriptIds(c)
        \/ DrawCandidate(c)
        \/ AppendStub(c)

SpecGenerate == Init /\ [][NextGenerate]_vars

(***************************************************************************)
(* The survey save alone: two sessions saving over sheets that hold a stub *)
(* row, a completed row or no row of the participant.                      *)
(***************************************************************************)
SaveSheetsSet ==
    { InitSheets(<<"stub">>, "none", TRUE),
      InitSheets(<<"stub">>, "none", FALSE),
      InitSheets(<<>>, "none", TRUE) }

InitSave == InitWith(SaveSheetsSet)

NextSave ==
    \E c \in Calls :
        \/ CallSave(c)
        \/ FindStub(c)
        \/ UpdateRow(c)
        \/ AppendRow(c)

SpecSave == InitSave /\ [][NextSave]_vars

(***************************************************************************)
(* A participant who goes on to the end: every input is valid, a call to   *)
(* the sheets may raise, and the confirming steps are taken again and      *)
(* again until they go through.                                            *)
(***************************************************************************)
\* the clock reads of a whole run: the survey save, and per item the reveal
\* and the save
LiveReads == 2 * (NumBlocks * 10) + 1

\* the clock value a run starts with, so that LiveReads reads and
\* MaxFailedSaves more stay below MaxTime
ClockStart == MaxTime - LiveReads - MaxFailedSaves

\* a save may read the clock and then raise during the first MaxFailedSaves
\* reads only
MayFailAfterRead == now < ClockStart + MaxFailedSaves

ValidAnswers == <<"Yes", "18-24", "f", "College", "No", "passing">>
ValidHeadphone == <<"feed", "lift", "storm", "hair">>

\* the ids a returning participant types: ids that have a row in the sheets
KnownTypedIds == {typed \in TypedIds : Strip(typed) \in ExistingIds(TRUE, TRUE)}

\* the sheets a run to the end starts from: empty, an item recorded under a
\* survey row left a stub, and a survey done with 99 items recorded
LiveSheetsSet ==
    { InitSheets(<<>>, "none", FALSE),
      InitSheets(<<"stub">>, "first", FALSE),
      InitSheets(<<"complete">>, "all_but_last", FALSE) }

InitLive ==
    /\ sentence_cache = StudySentences
    /\ word_cache = StudyWords
    /\ call = [c \in Calls |-> IdleCall]
    /\ ss = [s \in Sessions |-> InitialSession]
    /\ main_items_cache =
           [pid \in Pids |-> BuildMainItems(pid, StudySentences, StudyWords).main_items]
    /\ \E sheets \in LiveSheetsSet :
         /\ survey_sheet = sheets.survey
         /\ transcript_sheet = sheets.transcript
    /\ now = ClockStart
    /\ unknown_id = [s \in Sessions |-> ""]
    /\ resume_log = NoResumeLog
    /\ dl = [c \in Calls |-> IdleDownload]
    /\ gen = [c \in Calls |-> IdleGenerate]
    /\ saving = [c \in Calls |-> IdleSave]

\* the handlers of the flow, run with valid input and with every call to the
\* sheets succeeding
LiveResume(s) ==
    /\ OnPage(s, LOGIN_PAGE)
    /\ ss[s].login_mode = "returning"
    /\ \E typed \in KnownTypedIds :
           ResumePressWith(s, typed, TRUE) /\ UNCHANGED resume_log
LiveHeadphone(s) ==
    \E outcome \in {"update", "append"} :
        SubmitHeadphoneWith(s, ValidHeadphone, TRUE, outcome)
LiveItem(s) ==
    /\ OnItemPage(s)
    /\ CurrentPage(ss[s]) \in DOMAIN ss[s].item_start_times
    /\ SubmitItemWith(s, "word", "word", TRUE, TRUE)

\* the same handlers with a call to the sheets raising
LiveRaise(s) ==
    \/ \E typed \in KnownTypedIds :
          ResumePressWith(s, typed, FALSE) /\ UNCHANGED resume_log
    \/ SubmitHeadphoneWith(s, ValidHeadphone, FALSE, "fail")
    \/ MayFailAfterRead /\ SubmitHeadphoneWith(s, ValidHeadphone, TRUE, "fail")
    \/ RevealItemWith(s, FALSE)
    \/ /\ OnItemPage(s)
       /\ CurrentPage(ss[s]) \in DOMAIN ss[s].item_start_times
       /\ \/ SubmitItemWith(s, "word", "word", FALSE, TRUE)
          \/ MayFailAfterRead /\ SubmitItemWith(s, "word", "word", TRUE, FALSE)

NextLive ==
    \E s \in Sessions :
        \/ SwitchMode(s)
        \/ GenerateId(s)
        \/ StartStudy(s)
        \/ LiveResume(s)
        \/ PressNext(s)
        \/ SubmitScreeningWith(s, ValidAnswers)
        \/ LiveHeadphone(s)
        \/ RevealItemWith(s, TRUE)
        \/ LiveItem(s)
        \/ LiveRaise(s)

\* a confirming step that goes through: each of them moves the session on
LiveConfirm(s) ==
    \/ StartStudy(s)
    \/ LiveResume(s)
    \/ PressNext(s)
    \/ SubmitScreeningWith(s, ValidAnswers)
    \/ LiveHeadphone(s)
    \/ RevealItemWith(s, TRUE)
    \/ LiveItem(s)

\* the radio of the login page, picked when the mode shown offers no
\* confirming step: "new" without a generated id, "returning" without an id
\* the sheets know
LiveSwitch(s) ==
    /\ \/ ss[s].login_mode = "new" /\ ~ss[s].new_id_ready
       \/ ss[s].login_mode = "returning" /\ KnownTypedIds = {}
    /\ SwitchMode(s)

\* the participant keeps confirming and every call to the sheets goes through
\* in the end: a confirming step that is possible again and again is taken,
\* and a login mode without one is left
LiveFairness ==
    \A s \in Sessions : SF_vars(LiveConfirm(s)) /\ WF_vars(LiveSwitch(s))

SpecLive == InitLive /\ [][NextLive]_vars /\ LiveFairness

(***************************************************************************)
(* Properties of the assignment builder, checked under SpecBuild.          *)
(***************************************************************************)
Returned(c) == call[c].pc = "returned"

\* how many items of the list have the group g / the kind k
CountGroup(list, g) == Cardinality({k \in 1..Len(list) : list[k].group = g})
CountKind(list, kind) == Cardinality({k \in 1..Len(list) : list[k].kind = kind})
CountKindGroup(list, kind, g) ==
    Cardinality({k \in 1..Len(list) : list[k].kind = kind /\ list[k].group = g})

AudioIds(list) == {list[k].audio_id : k \in 1..Len(list)}

\* C1: two calls of build_main_items_for_participant for the same participant
\* id over the same pools return the same ordered sequence of items.
C1_Determinism ==
    \A c1, c2 \in Calls :
        (Returned(c1) /\ Returned(c2) /\ call[c1].pid = call[c2].pid)
            => call[c1].result = call[c2].result

C1_Witness ==
    /\ Returned(1) /\ Returned(2)
    /\ call[1].pid = call[2].pid
    /\ Len(call[1].result) = 100

BlockSlice(result, b) == SubSeq(result, 10 * b + 1, 10 * b + 10)

QuotaHolds(slice, b) ==
    /\ Len(slice) = 10
    /\ CountKind(slice, "sentence") = 5
    /\ CountKind(slice, "word") = 5
    /\ CountKindGroup(slice, "sentence", "G0") = (IF b % 2 = 0 THEN 2 ELSE 1)
    /\ CountKindGroup(slice, "sentence", "G1") = 1
    /\ CountKindGroup(slice, "sentence", "G2") = 1
    /\ CountKindGroup(slice, "sentence", "G3") = (IF b % 2 = 0 THEN 1 ELSE 2)
    /\ CountKindGroup(slice, "word", "WER0") = 3
    /\ CountKindGroup(slice, "word", "WER>0") = 2

\* C3: every block b in 0..9 of a returned assignment (positions 10b+1 ..
\* 10b+10) holds 5 sentences with groups {G0:2,G1:1,G2:1,G3:1} for even b and
\* {G0:1,G1:1,G2:1,G3:2} for odd b, and 5 words with groups {WER0:3,WER>0:2};
\* the blocks built so far hold them too, shuffled or not.
C3_BlockQuotas ==
    \A c \in Calls :
        /\ Returned(c) =>
               \A b \in 0..9 : QuotaHolds(BlockSlice(call[c].result, b), b)
        /\ \A b \in 1..Len(call[c].blocks) : QuotaHolds(call[c].blocks[b], b - 1)

C3_Witness ==
    \E c \in Calls :
        /\ Returned(c)
        /\ \E k \in 1..4 : call[c].result[k].kind # call[c].result[k + 1].kind
        /\ call[c].result[11].kind = "word"

\* some required group of the cached pools is below its minimum
PoolShort ==
    \/ CountGroup(sentence_cache, "G0") < 15
    \/ CountGroup(sentence_cache, "G1") < 10
    \/ CountGroup(sentence_cache, "G2") < 10
    \/ CountGroup(sentence_cache, "G3") < 15
    \/ CountGroup(word_cache, "WER0") < 30
    \/ CountGroup(word_cache, "WER>0") < 20

RECURSIVE SumLens(_, _)
SumLens(d, k) ==
    IF k > Len(d.keys) THEN 0 ELSE Len(d.lists[d.keys[k]]) + SumLens(d, k + 1)

\* C4: with a required group below its minimum the call raises ValueError
\* before any item is drawn and returns nothing; with every group at its
\* minimum or above no call raises, so no pop meets an empty list.
C4_ShortPoolFails ==
    \A c \in Calls :
        /\ PoolShort =>
              /\ call[c].pc \in {"idle", "check_sent", "check_word", "raised"}
              /\ call[c].pc = "raised" => call[c].err = "ValueError"
              /\ call[c].blocks = <<>> /\ call[c].result = <<>>
              /\ call[c].pc # "idle" =>
                     SumLens(call[c].sent_groups, 1) = Len(sentence_cache)
              /\ call[c].pc \in {"check_word", "raised"} /\ call[c].word_groups # EmptyDict =>
                     SumLens(call[c].word_groups, 1) = Len(word_cache)
        /\ ~PoolShort => call[c].pc # "raised"

C4_Witness ==
    \E c \in Calls :
        /\ call[c].pc = "raised" /\ call[c].err = "ValueError"
        /\ CountGroup(sentence_cache, "G1") = 9

C4_WitnessEnough ==
    \E c \in Calls : ~PoolShort /\ Returned(c)

\* the pools hold exactly the minimum counts and nothing else
PoolExact ==
    /\ Len(sentence_cache) = 50 /\ Len(word_cache) = 50
    /\ CountGroup(sentence_cache, "G0") = 15
    /\ CountGroup(sentence_cache, "G1") = 10
    /\ CountGroup(sentence_cache, "G2") = 10
    /\ CountGroup(sentence_cache, "G3") = 15
    /\ CountGroup(word_cache, "WER0") = 30
    /\ CountGroup(word_cache, "WER>0") = 20

\* C5: with pools of exactly the minimum counts the call does not raise, and
\* when it has built its 10 blocks every group list is empty and the
\* assignment is a permutation of the 100 pool items.
C5_ExactPoolUsedUp ==
    \A c \in Calls :
        PoolExact =>
            /\ call[c].pc # "raised"
            /\ (call[c].pc = "blocks" /\ Len(call[c].blocks) = NumBlocks) =>
                   /\ SumLens(call[c].sent_groups, 1) = 0
                   /\ SumLens(call[c].word_groups, 1) = 0
            /\ Returned(c) =>
                   /\ SumLens(call[c].sent_groups, 1) = 0
                   /\ SumLens(call[c].word_groups, 1) = 0
                   /\ Len(call[c].result) = 100
                   /\ AudioIds(call[c].result) =
                          AudioIds(sentence_cache) \cup AudioIds(word_cache)
                   /\ Cardinality(AudioIds(call[c].result)) = 100

C5_Witness ==
    \E c \in Calls : PoolExact /\ Returned(c)

(***************************************************************************)
(* Properties of the login page and of the resume decision.                *)
(***************************************************************************)
\* the session has just resumed: "Resuming participant" was shown
Resumed(s) == ss[s].notice = "resuming"

\* the survey records and the recorded item ids a participant has in the sheets
SurveyRecordsOf(pid) ==
    {k \in 2..Len(survey_sheet) :
        Len(survey_sheet[k]) > 1 /\ survey_sheet[k][2] = pid}

TranscriptRecordsOf(pid) ==
    {k \in 2..Len(transcript_sheet) :
        Len(transcript_sheet[k]) > 1 /\ transcript_sheet[k][2] = pid}

RecordedItemIds(pid) == {transcript_sheet[k][3] : k \in TranscriptRecordsOf(pid)}

\* one of the 10 required fields q1..q6, calib1..calib4 is missing, empty or
\* whitespace
BlankRequiredField(row) ==
    \E i \in 3..12 : i > Len(row) \/ row[i] = "" \/ row[i] = " "

HasOneCompleteRecord(pid) ==
    /\ Cardinality(SurveyRecordsOf(pid)) = 1
    /\ \A k \in SurveyRecordsOf(pid) : ~BlankRequiredField(survey_sheet[k])

HasOneIncompleteRecord(pid) ==
    /\ Cardinality(SurveyRecordsOf(pid)) = 1
    /\ \A k \in SurveyRecordsOf(pid) : BlankRequiredField(survey_sheet[k])

\* C6: once a resume attempt was rejected because the id has no record, the
\* session never leaves the login page under that id and no survey or
\* transcript row carrying that id is written.
C6_UnknownIdCreatesNothing ==
    \A s \in Sessions :
        unknown_id[s] # "" =>
            /\ ss[s].participant_id = unknown_id[s] => CurrentPage(ss[s]) = LOGIN_PAGE
            /\ SurveyRecordsOf(unknown_id[s]) = {}
            /\ TranscriptRecordsOf(unknown_id[s]) = {}

\* C7: when the participant's survey record has a blank required field, resume
\* sets the step to Screening, whatever transcript records the id has.
C7_IncompleteSurveyToScreening ==
    \A s \in Sessions :
        (Resumed(s) /\ HasOneIncompleteRecord(ss[s].participant_id)) =>
            /\ CurrentPage(ss[s]) = "screening"
            /\ ss[s].page_index = 2

C7_Witness ==
    \E s \in Sessions :
        /\ Resumed(s)
        /\ HasOneIncompleteRecord(ss[s].participant_id)
        /\ Cardinality(RecordedItemIds(ss[s].participant_id)) = 100
        /\ CurrentPage(ss[s]) = "screening"

\* C8: with a complete survey record, resume sets the step to item_1 when the
\* id has no transcript record, and to thank_you when its transcript records
\* cover all 100 assigned item ids.
C8_NoneToFirstItemAllToThankYou ==
    \A s \in Sessions :
        (Resumed(s) /\ HasOneCompleteRecord(ss[s].participant_id)) =>
            /\ TranscriptRecordsOf(ss[s].participant_id) = {} =>
                   /\ CurrentPage(ss[s]) = "item_1"
                   /\ ss[s].page_index = Len(BASE_PAGES)
            /\ AudioIds(main_items_of(ss[s].participant_id))
                   \subseteq RecordedItemIds(ss[s].participant_id) =>
                   /\ CurrentPage(ss[s]) = FINAL_PAGE
                   /\ ss[s].page_index = Len(BASE_PAGES) + 100

C8_Witness ==
    \E s \in Sessions :
        /\ Resumed(s)
        /\ HasOneCompleteRecord(ss[s].participant_id)
        /\ Cardinality(AudioIds(main_items_of(ss[s].participant_id))) = 100
        /\ AudioIds(main_items_of(ss[s].participant_id))
               \subseteq RecordedItemIds(ss[s].participant_id)
        /\ CurrentPage(ss[s]) = FINAL_PAGE

C8_WitnessFirstItem ==
    \E s \in Sessions :
        /\ Resumed(s)
        /\ HasOneCompleteRecord(ss[s].participant_id)
        /\ TranscriptRecordsOf(ss[s].participant_id) = {}
        /\ CurrentPage(ss[s]) = "item_1"

\* C9: with a complete survey record and some transcript records, resume sets
\* the step to Item(k) for the smallest k whose item id is not among the item
\* ids recorded for the participant, in the order of the participant's
\* recomputed assignment.
C9_FirstUnrecordedItem ==
    \A s \in Sessions :
        LET pid == ss[s].participant_id
            assignment == BuildMainItems(pid, sentence_cache, word_cache).main_items
        IN (Resumed(s) /\ HasOneCompleteRecord(pid) /\ TranscriptRecordsOf(pid) # {}) =>
               \A k \in 1..Len(assignment) :
                   (/\ assignment[k].audio_id \notin RecordedItemIds(pid)
                    /\ \A j \in 1..(k - 1) : assignment[j].audio_id \in RecordedItemIds(pid))
                   => /\ CurrentPage(ss[s]) = ItemPage(k)
                      /\ ss[s].page_index = Len(BASE_PAGES) + k - 1

\* a later item is recorded and the first is not: the count of records and
\* the first unrecorded position differ
C9_Witness ==
    \E s \in Sessions :
        LET pid == ss[s].participant_id
        IN /\ Resumed(s)
           /\ HasOneCompleteRecord(pid)
           /\ main_items_of(pid)[2].audio_id \in RecordedItemIds(pid)
           /\ main_items_of(pid)[1].audio_id \notin RecordedItemIds(pid)
           /\ CurrentPage(ss[s]) = "item_1"

\* duplicate records of the first two items: the third item is next
C9_WitnessDuplicates ==
    \E s \in Sessions :
        LET pid == ss[s].participant_id
        IN /\ Resumed(s)
           /\ HasOneCompleteRecord(pid)
           /\ Cardinality(TranscriptRecordsOf(pid)) = 3
           /\ Cardinality(RecordedItemIds(pid)) = 2
           /\ CurrentPage(ss[s]) = "item_3"

\* records of another participant for the same clips
C9_WitnessOthers ==
    \E s \in Sessions :
        LET pid == ss[s].participant_id
        IN /\ Resumed(s)
           /\ HasOneCompleteRecord(pid)
           /\ TranscriptRecordsOf(pid) # {}
           /\ \E other \in Pids \ {pid} :
                  main_items_of(pid)[1].audio_id \in RecordedItemIds(other)
           /\ CurrentPage(ss[s]) = "item_1"

\* the orders a store may return n data rows in
RowOrders(n) == {f \in [1..n -> 1..n] : \A w \in 1..n : \E v \in 1..n : f[v] = w}

\* the sheet with its data rows in the order f, the header row first
Reordered(sheet, f) ==
    IF Len(sheet) = 0 THEN sheet
    ELSE <<sheet[1]>> \o [k \in 1..(Len(sheet) - 1) |-> sheet[f[k] + 1]]

ReversedRows(sheet) ==
    IF Len(sheet) = 0 THEN sheet
    ELSE <<sheet[1]>> \o [k \in 1..(Len(sheet) - 1) |-> sheet[Len(sheet) + 1 - k]]

\* the step resume selects for the rows read: "unknown", or the index of the
\* page in the participant's pages
ResumeStep(pid, survey_rows, trans_rows) ==
    LET d == ResumeDecision(pid, survey_rows, trans_rows)
    IN IF d.kind = "unknown" THEN "unknown"
       ELSE IF ~InList(get_pages(pid), d.next_page) THEN "no_resume_page"
       ELSE ToString(IndexOf(get_pages(pid), d.next_page))

\* C10: for every participant id, the step resume selects for the sheets is
\* the same for every order of the survey data rows and for the transcript
\* data rows read backwards.
C10_RowOrderTolerated ==
    \A pid \in Pids :
        /\ \A f \in RowOrders(Len(survey_sheet) - 1) :
               ResumeStep(pid, Reordered(survey_sheet, f), transcript_sheet)
                   = ResumeStep(pid, survey_sheet, transcript_sheet)
        /\ ResumeStep(pid, survey_sheet, ReversedRows(transcript_sheet))
               = ResumeStep(pid, survey_sheet, transcript_sheet)

(***************************************************************************)
(* Properties of the session flow.                                         *)
(***************************************************************************)
\* C11: every resume of an id picks the page index that the first resume of
\* that id picked on the same sheets, and no resume changes a sheet.
C11_ResumeIdempotent ==
    /\ [](\A s \in Sessions :
             Resumed(s) =>
                 /\ resume_log[ss[s].participant_id].count >= 1
                 /\ ss[s].page_index = resume_log[ss[s].participant_id].step)
    /\ [][(\E s \in Sessions : ss'[s] # ss[s] /\ ss'[s].notice = "resuming")
             => /\ survey_sheet' = survey_sheet
                /\ transcript_sheet' = transcript_sheet]_vars

\* a second resume of the id of an incomplete survey row that has transcripts
C11_Witness ==
    \E s \in Sessions :
        /\ Resumed(s)
        /\ resume_log[ss[s].participant_id].count = 2
        /\ HasOneIncompleteRecord(ss[s].participant_id)
        /\ TranscriptRecordsOf(ss[s].participant_id) # {}

C11_WitnessItem ==
    \E s \in Sessions :
        /\ Resumed(s)
        /\ resume_log[ss[s].participant_id].count = 2
        /\ ss[s].page_index > Len(BASE_PAGES)

\* the step of session s opens a new session (the page was closed or reloaded)
SessionRestarts(s) == ss[s] # InitialSession /\ ss'[s] = InitialSession

\* C12: no step of a session lowers its page_index.
C12_NeverBackwards ==
    [][\A s \in Sessions :
          ~SessionRestarts(s) => ss'[s].page_index >= ss[s].page_index]_vars

\* a validation error on the headphone page, the index kept
C12_Witness ==
    \E s \in Sessions :
        /\ ss[s].notice = "answer_all"
        /\ CurrentPage(ss[s]) = "headphone"
        /\ ss[s].page_index = 4

\* the step of session s is an accepted confirmation of a page after Login:
\* a "Next" press, or a form submit that ends without an error
Confirms(s) ==
    \/ PressNext(s)
    \/ (SubmitScreening(s) \/ SubmitHeadphone(s) \/ SubmitItem(s))
           /\ ss'[s].notice = "none"

\* C13: every session starts on the login page; an accepted confirmation of
\* a page after Login raises page_index by exactly one; on the last page no
\* step of the session changes page_index.
C13_OneStepForwardThankYouTerminal ==
    /\ \A s \in Sessions : ss[s].page_index = 0 /\ CurrentPage(ss[s]) = LOGIN_PAGE
    /\ [][\A s \in Sessions :
             /\ Confirms(s) => ss'[s].page_index = ss[s].page_index + 1
             /\ (CurrentPage(ss[s]) = FINAL_PAGE /\ ~SessionRestarts(s))
                    => ss'[s].page_index = ss[s].page_index]_vars

\* the last item was confirmed and the session is on thank_you
C13_Witness ==
    \E s \in Sessions :
        /\ CurrentPage(ss[s]) = FINAL_PAGE
        /\ ss[s].page_index = Len(BASE_PAGES) + 100
        /\ ss[s].notice = "none"
        /\ "item_100" \in DOMAIN ss[s].item_audio_shown

\* C14: for a session with a participant id the page list has 6 fixed pages
\* (login included), one page per assigned item and the closing page; once
\* the session has left the login page, its participant id and its page list
\* stay as they are.
C14_PageListFixed ==
    /\ [](\A s \in Sessions :
             ss[s].participant_id # "" =>
                 /\ Len(get_pages(ss[s].participant_id))
                        = 6 + Len(main_items_of(ss[s].participant_id)) + 1
                 /\ Len(get_pages(ss[s].participant_id)) = 107)
    /\ [][\A s \in Sessions :
             (CurrentPage(ss[s]) # LOGIN_PAGE /\ ~SessionRestarts(s)) =>
                 /\ ss'[s].participant_id = ss[s].participant_id
                 /\ get_pages(ss[s].participant_id)' = get_pages(ss[s].participant_id)]_vars

\* C14 as stated: the page list has 5 fixed pages, the item pages and the
\* closing page.
C14_FiveFixedPages ==
    \A s \in Sessions :
        ss[s].participant_id # "" =>
            Len(get_pages(ss[s].participant_id))
                = 5 + Len(main_items_of(ss[s].participant_id)) + 1

C14_Witness ==
    \E s \in Sessions :
        /\ ss[s].participant_id # ""
        /\ OnItemPage(s)
        /\ ss[s].notice = "start_first"
        /\ Len(get_pages(ss[s].participant_id)) = 107

\* the start timestamp and the reveal flag a session state holds for a page
StartOf(st, page_name) ==
    IF page_name \in DOMAIN st.item_start_times
    THEN ToString(st.item_start_times[page_name]) ELSE "none"

ShownOf(st, page_name) ==
    page_name \in DOMAIN st.item_audio_shown /\ st.item_audio_shown[page_name]

EmptyTexts == {"", " "}

\* the step of session s leaves page_index, the transcript sheet, the start
\* timestamp and the reveal flag of the current item as they were, and ends
\* with an error
ItemStepRejected(s) ==
    /\ ss'[s].notice \in {"first_empty", "second_empty", "start_first", "sheet_error"}
    /\ ss'[s].page_index = ss[s].page_index
    /\ transcript_sheet' = transcript_sheet
    /\ StartOf(ss'[s], CurrentPage(ss[s])) = StartOf(ss[s], CurrentPage(ss[s]))
    /\ ShownOf(ss'[s], CurrentPage(ss[s])) = ShownOf(ss[s], CurrentPage(ss[s]))

\* C15: a submit of an item page with an empty or whitespace-only first or
\* second text is rejected: it ends with an error and leaves page_index, the
\* transcript sheet, the start timestamp and the reveal flag of the item as
\* they were; when the sheet is reached and the item was revealed the error
\* is the validation error. (Stated step by step: a step that is not such a
\* rejection is no submit with an empty text.)
C15_EmptyTranscriptRejected ==
    [][\A s \in Sessions :
          OnItemPage(s) =>
              /\ ~ItemStepRejected(s) =>
                     \A first \in TranscriptInputs, second \in TranscriptInputs,
                        ok_ws \in BOOLEAN, ok_append \in BOOLEAN :
                         (first \in EmptyTexts \/ second \in EmptyTexts)
                             => ~SubmitItemWith(s, first, second, ok_ws, ok_append)
              /\ (/\ ss'[s].notice \notin {"first_empty", "second_empty"}
                  /\ CurrentPage(ss[s]) \in DOMAIN ss[s].item_start_times) =>
                     \A first \in TranscriptInputs, second \in TranscriptInputs,
                        ok_append \in BOOLEAN :
                         (first \in EmptyTexts \/ second \in EmptyTexts)
                             => ~SubmitItemWith(s, first, second, TRUE, ok_append)]_vars

\* a revealed item whose second text was rejected
C15_Witness ==
    \E s \in Sessions :
        /\ OnItemPage(s)
        /\ ss[s].notice = "second_empty"
        /\ StartOf(ss[s], CurrentPage(ss[s])) # "none"
        /\ ShownOf(ss[s], CurrentPage(ss[s]))

\* C16: the start timestamp of an item page is written when the page is
\* revealed, with the time of that step; while the session state lasts, no
\* later step changes it; the start_time of a transcript row that is written
\* is the start timestamp the session holds for the page.
C16_StartTimeSetOnce ==
    [][\A s \in Sessions :
          ~SessionRestarts(s) =>
              /\ \A page_name \in DOMAIN ss[s].item_start_times :
                     page_name \in DOMAIN ss'[s].item_start_times
                         => ss'[s].item_start_times[page_name]
                                = ss[s].item_start_times[page_name]
              /\ \A page_name \in DOMAIN ss'[s].item_start_times :
                     page_name \notin DOMAIN ss[s].item_start_times =>
                         /\ page_name = CurrentPage(ss[s])
                         /\ ~ShownOf(ss[s], page_name) /\ ShownOf(ss'[s], page_name)
                         /\ ss'[s].item_start_times[page_name] = now
              /\ (ss'[s] # ss[s] /\ transcript_sheet' # transcript_sheet) =>
                     /\ Len(transcript_sheet') = Len(transcript_sheet) + 1
                     /\ transcript_sheet'[Len(transcript_sheet')][4]
                            = StartOf(ss[s], CurrentPage(ss[s]))
                     /\ StartOf(ss[s], CurrentPage(ss[s])) # "none"]_vars

\* a row written two clock reads after the reveal: a save failed in between
C16_Witness ==
    \E k \in 2..Len(transcript_sheet) :
        /\ transcript_sheet[k][6] = 2
        /\ transcript_sheet[k][4] = "0"

\* the data rows of the transcript sheet that carry the participant id and
\* the item id of row k
SamePairRows(k) ==
    {j \in 2..Len(transcript_sheet) :
        /\ transcript_sheet[j][2] = transcript_sheet[k][2]
        /\ transcript_sheet[j][3] = transcript_sheet[k][3]}

\* C17: the transcript sheet holds at most one row for each pair of a
\* participant id and an item id.
C17_OneRowPerParticipantItem ==
    \A k \in 2..Len(transcript_sheet) : SamePairRows(k) = {k}

\* C18: the survey sheet holds at most one row per participant id.
C18_OneSurveyRowPerId ==
    \A k \in 2..Len(survey_sheet) :
        {j \in 2..Len(survey_sheet) : survey_sheet[j][2] = survey_sheet[k][2]} = {k}

\* C19: whenever a session shows a generated id (new_id_ready), the survey
\* sheet holds a stub row for that id: 12 cells, the 10 answer cells empty.
C19_StubRowWhenIdShown ==
    \A s \in Sessions :
        ss[s].new_id_ready =>
            \E k \in SurveyRecordsOf(ss[s].participant_id) :
                /\ Len(survey_sheet[k]) = 12
                /\ \A i \in 3..12 : survey_sheet[k][i] = ""

\* the step of session s leaves page_index, the transcript sheet, the start
\* timestamp and the reveal flag of the current item as they were
ItemSaveKept(s) ==
    /\ ss'[s].page_index = ss[s].page_index
    /\ transcript_sheet' = transcript_sheet
    /\ StartOf(ss'[s], CurrentPage(ss[s])) = StartOf(ss[s], CurrentPage(ss[s]))
    /\ ShownOf(ss'[s], CurrentPage(ss[s])) = ShownOf(ss[s], CurrentPage(ss[s]))

\* the step of session s leaves page_index, the survey sheet and the screening
\* answers as they were, and survey_saved stays False
SurveySaveKept(s) ==
    /\ ss'[s].page_index = ss[s].page_index
    /\ survey_sheet' = survey_sheet
    /\ ss'[s].screening_answers = ss[s].screening_answers
    /\ ~ss'[s].survey_saved

\* how the save of lines 1005-1012 ends when a call to the sheet raised
FailedSaves == {"append", "fail"}

\* C20: a submit whose call to the sheet raises leaves the flow where it was:
\* on an item page a raising append_row keeps page_index, the transcript
\* sheet, the start timestamp and the reveal flag; on the headphone page of a
\* participant whose row exists, a raising find or update keeps page_index,
\* the survey sheet and the screening answers, and survey_saved stays False.
\* (Stated step by step: a step that does not keep them is no such submit.)
C20_FailedSaveKeepsStep ==
    [][\A s \in Sessions :
          /\ (OnItemPage(s) /\ ~ItemSaveKept(s)) =>
                 \A first \in TranscriptInputs, second \in TranscriptInputs,
                    ok_ws \in BOOLEAN :
                     ~SubmitItemWith(s, first, second, ok_ws, FALSE)
          /\ (/\ OnPage(s, "headphone")
              /\ ~ss[s].survey_saved
              /\ FindRow(survey_sheet, ss[s].participant_id) # 0
              /\ ~SurveySaveKept(s)) =>
                 \A hp \in HeadphoneInputs, ok_ws \in BOOLEAN, save \in FailedSaves :
                     ~SubmitHeadphoneWith(s, hp, ok_ws, save)]_vars

(***************************************************************************)
(* Properties of download_file_bytes, checked under SpecDownload.          *)
(***************************************************************************)
\* C21: a download makes at most two attempts (attempt is 0 or 1 and counts
\* the failures so far while the call runs); it returns the whole content of
\* the file as soon as the first or the second attempt got every chunk; it
\* raises only when two attempts failed, and then it raises the second error.
C21_RetryOnce ==
    \A c \in Calls :
        LET d == dl[c]
        IN /\ d.attempt \in {0, 1}
           /\ d.failed <= 2
           /\ d.pc \in {"attempt", "chunks", "returned"} => d.failed = d.attempt
           /\ d.pc = "returned" => d.result = FileBytes(d.file_id)
           /\ d.pc = "raised" <=> d.failed = 2
           /\ d.pc = "raised" => d.attempt = 1 /\ d.last_err \in DownloadErrors

\* a call that returned a file of two chunks on its second attempt
C21_Witness ==
    \E c \in Calls :
        /\ dl[c].pc = "returned"
        /\ dl[c].failed = 1
        /\ Len(dl[c].result) = 2

(***************************************************************************)
(* Properties of abandoning and resuming, checked under Spec.              *)
(***************************************************************************)
\* C22: when a session is abandoned on an item page (a new session starts in
\* its place), the transcript sheet holds no row of the participant for that
\* item, and the step resume selects for the participant from the sheets as
\* they are left is the index of that item page.
C22_AbandonedItemResumes ==
    [][\A s \in Sessions :
          (OnItemPage(s) /\ NewSession(s)) =>
              LET pid == ss[s].participant_id
                  item_config == ItemConfig(pid, CurrentPage(ss[s]))
              IN /\ item_config.audio_id \notin RecordedItemIds(pid)
                 /\ ResumeStep(pid, survey_sheet', transcript_sheet')
                        = ToString(ss[s].page_index)]_vars

(***************************************************************************)
(* Properties of the id generation, checked under SpecGenerate.            *)
(***************************************************************************)
\* C23: the id a run of the generate handler returns is carried by no row of
\* the survey sheet or the transcript sheet at that moment, and differs from
\* the id every other run has returned.
C23_GeneratedIdUnique ==
    [][\A c \in Calls :
          DrawCandidate(c) =>
              /\ gen'[c].participant_id \notin
                     IdsOfSheet(survey_sheet) \cup IdsOfSheet(transcript_sheet)
              /\ \A other \in Calls \ {c} :
                     gen[other].participant_id # gen'[c].participant_id]_vars

C25_LastWriteWinsAppendOnlyUnfound ==
    [][\A c \in Calls :
          /\ (saving[c].pc = "update" /\ saving'[c].pc = "saved") =>
                 /\ Len(survey_sheet') = Len(survey_sheet)
                 /\ survey_sheet'[saving[c].row_idx] = saving[c].full_row
                 /\ \A k \in (1..Len(survey_sheet)) \ {saving[c].row_idx} :
                        survey_sheet'[k] = survey_sheet[k]
          /\ (saving[c].pc = "append" /\ Len(survey_sheet') > Len(survey_sheet)) =>
                 saving[c].row_idx = 0]_vars

(***************************************************************************)
(* Properties of resume after the survey was saved, checked under Spec.    *)
(***************************************************************************)
\* C26: while a session holds survey_saved for its participant id, the resume
\* decision for that id over the sheets is an item page or thank_you: the id
\* is known and the next page is neither screening nor intro.
C26_SavedSurveyNeverScreening ==
    \A s \in Sessions :
        (ss[s].survey_saved /\ ss[s].participant_id # "") =>
            LET d == ResumeDecision(ss[s].participant_id, survey_sheet, transcript_sheet)
            IN /\ d.kind # "unknown"
               /\ d.next_page \notin {"screening", "intro"}

(***************************************************************************)
(* Properties of the item pages, checked under Spec.                       *)
(***************************************************************************)
\* the row a step has appended to the transcript sheet
AppendedRow == transcript_sheet'[Len(transcript_sheet')]

\* C27: a submit on an item page that has no start timestamp leaves
\* page_index and the transcript sheet as they were, whatever the two texts
\* are, and shows the "start first" error when the sheet is reached; a step
\* that appends a transcript row appends the participant's row with the start
\* timestamp the session holds for that page and a duration >= 0; and a start
\* timestamp enters the session only by the reveal of the current page, as the
\* clock value of that step.
C27_NoSubmitBeforeReveal ==
    [][\A s \in Sessions :
          /\ (OnItemPage(s) /\ CurrentPage(ss[s]) \notin DOMAIN ss[s].item_start_times) =>
                 \A first \in TranscriptInputs, second \in TranscriptInputs,
                    ok_ws \in BOOLEAN, ok_append \in BOOLEAN :
                     SubmitItemWith(s, first, second, ok_ws, ok_append) =>
                         /\ ss'[s].page_index = ss[s].page_index
                         /\ transcript_sheet' = transcript_sheet
                         /\ ok_ws => ss'[s].notice = "start_first"
          /\ Len(transcript_sheet') > Len(transcript_sheet) =>
                 /\ OnItemPage(s)
                 /\ CurrentPage(ss[s]) \in DOMAIN ss[s].item_start_times
                 /\ AppendedRow[2] = ss[s].participant_id
                 /\ AppendedRow[4] = ToString(ss[s].item_start_times[CurrentPage(ss[s])])
                 /\ AppendedRow[5] = ToString(now)
                 /\ AppendedRow[6] >= 0
          /\ \A page_name \in DOMAIN ss'[s].item_start_times :
                 (\/ page_name \notin DOMAIN ss[s].item_start_times
                  \/ ss'[s].item_start_times[page_name] # ss[s].item_start_times[page_name]) =>
                     /\ RevealItem(s)
                     /\ page_name = CurrentPage(ss[s])
                     /\ ss'[s].item_start_times[page_name] = now]_vars

\* the second item submitted before its reveal, after the first was saved
C27_Witness ==
    \E s \in Sessions :
        /\ ss[s].notice = "start_first"
        /\ ss[s].page_index = Len(BASE_PAGES) + 1
        /\ TranscriptRecordsOf(ss[s].participant_id) # {}

\* the pages for which a session state holds a reveal flag or a start timestamp
PagesKnown(st) == (DOMAIN st.item_audio_shown) \cup (DOMAIN st.item_start_times)

\* C28: in every state, for every page, the reveal flag is true exactly when
\* a start timestamp is stored; a step that sets one sets both and is the
\* reveal of the current page; a step inside a session that clears one clears
\* both and has appended the transcript row of the current page.
C28_FlagIffStartTime ==
    /\ [](\A s \in Sessions : \A page_name \in PagesKnown(ss[s]) :
            ShownOf(ss[s], page_name) <=> page_name \in DOMAIN ss[s].item_start_times)
    /\ [][\A s \in Sessions : \A page_name \in PagesKnown(ss[s]) \cup PagesKnown(ss'[s]) :
            /\ (~ShownOf(ss[s], page_name) /\ ShownOf(ss'[s], page_name)) =>
                   /\ RevealItem(s)
                   /\ page_name = CurrentPage(ss[s])
                   /\ page_name \in DOMAIN ss'[s].item_start_times
            /\ (ShownOf(ss[s], page_name) /\ ~ShownOf(ss'[s], page_name)
                    /\ ~SessionRestarts(s)) =>
                   /\ page_name = CurrentPage(ss[s])
                   /\ page_name \notin DOMAIN ss'[s].item_start_times
                   /\ Len(transcript_sheet') = Len(transcript_sheet) + 1
                   /\ AppendedRow[2] = ss[s].participant_id
                   /\ AppendedRow[3] = ItemConfig(ss[s].participant_id, page_name).audio_id]_vars

\* a revealed item whose save failed: the flag and the start timestamp are
\* both still there
C28_Witness ==
    \E s \in Sessions :
        /\ OnItemPage(s)
        /\ ss[s].notice = "save_error"
        /\ ShownOf(ss[s], CurrentPage(ss[s]))
        /\ CurrentPage(ss[s]) \in DOMAIN ss[s].item_start_times

(***************************************************************************)
(* Properties of the page index, checked under Spec.                       *)
(***************************************************************************)
\* C29: in every state, page_index is at least 0 and below the length of the
\* session's page list; a page_index above 0 comes with a non-empty
\* participant id; the range check of main() changes nothing; and the page
\* list is the login page alone exactly when the participant id is empty.
C29_IndexInRange ==
    \A s \in Sessions :
        /\ ss[s].page_index >= 0
        /\ ss[s].page_index < PagesLen(ss[s].participant_id)
        /\ ss[s].page_index > 0 => ss[s].participant_id # ""
        /\ Route(ss[s]) = ss[s]
        /\ (PagesLen(ss[s].participant_id) = 1) <=> (ss[s].participant_id = "")
        /\ ss[s].participant_id = "" => PageAt(ss[s].participant_id, 0) = LOGIN_PAGE

\* a resume that put the session on the last index of the page list
C29_Witness ==
    \E s \in Sessions :
        /\ Resumed(s)
        /\ ss[s].page_index = PagesLen(ss[s].participant_id) - 1
        /\ ss[s].page_index > 0

(***************************************************************************)
(* Resume of an id with transcript rows only, checked under SpecResume.    *)
(***************************************************************************)
\* C30: for a participant id that has transcript rows and no survey row, a
\* resume never ends with the "unknown id" error or without a page to resume
\* at, and a resume that read the sheets puts the session on screening
\* (page_index 2) with survey_saved False, whatever the number of items that
\* have rows.
C30_TranscriptsOnlyToScreening ==
    \A s \in Sessions :
        LET pid == ss[s].participant_id
        IN (pid # "" /\ SurveyRecordsOf(pid) = {} /\ TranscriptRecordsOf(pid) # {}) =>
               /\ ss[s].notice \notin {"unknown_id", "no_resume_page"}
               /\ unknown_id[s] # pid
               /\ Resumed(s) =>
                      /\ CurrentPage(ss[s]) = "screening"
                      /\ ss[s].page_index = 2
                      /\ ~ss[s].survey_saved

\* resumed on screening with all 100 items recorded and no survey row
C30_Witness ==
    \E s \in Sessions :
        /\ Resumed(s)
        /\ SurveyRecordsOf(ss[s].participant_id) = {}
        /\ Cardinality(RecordedItemIds(ss[s].participant_id)) = 100
        /\ CurrentPage(ss[s]) = "screening"

(***************************************************************************)
(* Progress to the end, checked under SpecLive.                            *)
(***************************************************************************)
\* the position in the assignment of the item page a session is on
ItemPosition(s) == ss[s].page_index - Len(BASE_PAGES) + 1

====
